---- MODULE Spec2Model ----
(***************************************************************************)
(* The remote test runner of bokehjs (src/unnamed/part_000): run(),        *)
(* run_tests() and the per-test run_test() as a state machine.  One action *)
(* is one stretch of code between two awaits on the browser; pc names the  *)
(* await the runner is suspended at.                                       *)
(*                                                                         *)
(* Every answer of the browser (a protocol reply, a console event, a file  *)
(* found on disk) is an input, drawn with \E where the code reads it, and  *)
(* `answer` keeps the answer the runner received last.  The fields of a    *)
(* test (description, retries, dpr, threshold) come with Tests.top_level   *)
(* but are first read when the loop reaches the test, so the model draws   *)
(* them there; the skip flags are read before the loop (line 335) and are  *)
(* drawn at discovery.  The Status of a test is read by the loop only      *)
(* while that test is processed; afterwards the run depends on it through  *)
(* the counters failures and skipped, so the model holds the Status of the *)
(* test in progress; report.json reads the failure flag of every Status    *)
(* at the end (line 670), and `results` keeps those flags in the           *)
(* specifications whose scope holds the report.  status.errors is a list   *)
(* that is only appended to: `appended` holds the texts the last step      *)
(* appended.  The baseline                                                 *)
(* directory is read once, by the final readdir: what it held before the   *)
(* run is drawn there, and `wrote` holds the files the last step wrote.    *)
(*                                                                         *)
(* `scope` says which pages and suites a specification explores: whether   *)
(* an evaluation that timed out goes on running in the page, which fields  *)
(* the tests declare, how many tests the suite may hold and whether the    *)
(* failure flags of report.json are kept.  Spec                            *)
(* explores the command lines without --retry, SpecRetry the retry loop    *)
(* with --retry on one test, SpecPage the pages whose timed-out            *)
(* evaluations go on running and whose tests may declare a dpr.            *)
(*                                                                         *)
(* The plotting library the tests of src/bokehjs/make/tasks/build.ts drive *)
(* (documents, views, tools, glyph hit tests) has no source here: its      *)
(* operations are modelled after sections 3 and 4.1-4.4 of the design and  *)
(* after what those tests expect, with `call` keeping the last call made   *)
(* to the library.                                                         *)
(***************************************************************************)
EXTENDS Integers, Sequences, FiniteSets, TLC

\* ------------------------------------------------------------ bounds
MaxTests == 2          \* tests in the discovered suite
RetryTests == 1        \* tests in the suite whose retry loop is explored
MaxRetries == 1        \* largest retry budget a test declares
MaxEvents == 1         \* console errors and exceptions the page emits per test
MaxPixels == 1         \* largest pixel count diff_image reports
MaxThreshold == 1      \* largest threshold a test declares
MaxShuffles == 2       \* runs that shuffle the same suite with the same seed
MaxLog == 4            \* events of the document log before callers stop writing
MaxRef == 2            \* value objects of equal content a caller may hold
MaxContent == 1        \* largest content of an attribute value
MaxViews == 3          \* renderer views of the plot
MaxRenders == 3        \* render() calls of a view the spies count
MaxRequests == 3       \* request_render() calls the spy counts
MaxPans == 2           \* pan gestures on the row of plots
MaxDraws == 3          \* calls of float() on one Random

\* ------------------------------------------------- program constants
chromium_min_version == 107
DefaultRetries == 10
SigintCode == 130
CanvasSize == 100      \* fig([100, 100])
MinBorder == 10        \* min_border: 10
MAX_INT32 == 2147483647
Multiplier == 48271

\* ---------------------------------------------------- optional values
\* `undefined`/null is the empty set, a present value x is {x}.
Undefined == {}
Some(x) == {x}
Get(o) == CHOOSE x \in o : TRUE
Option(S) == {Undefined} \cup {Some(x) : x \in S}

\* ------------------------------------------------------------ inputs
\* Browser strings as check_version sees them: whether the pattern
\* Chrome/<major>.x.y.z matched, and the major number it captured.
Versions ==
  { [match |-> FALSE, major |-> 0],
    [match |-> TRUE, major |-> chromium_min_version - 1],
    [match |-> TRUE, major |-> chromium_min_version],
    [match |-> TRUE, major |-> chromium_min_version + 1] }

ScreenshotModes == {"test", "save", "skip", "other"}

\* argv: --info, --retry, --baselines-root given or not, --screenshot
\* ("test" also stands for no --screenshot).  --screenshot is read only
\* with a baselines root (line 581).
Argvs ==
  {a \in [info : BOOLEAN, retry : BOOLEAN, baselinesRoot : BOOLEAN,
          screenshot : ScreenshotModes] :
     ~a.baselinesRoot => a.screenshot = "test"}

\* Descriptions are strings, here sequences of characters; a test is known
\* by the chain of descriptions of its suites and itself.
Descriptions ==
  { << <<"a", " ">> >>,
    << <<"a", "_">> >>,
    << <<"a">>, <<"b">> >> }

\* A test and a suite of the tree Tests.top_level answers with; a test is
\* one object of the tree, so no two tests of a tree are equal.
TestOf(d) == [description |-> d]

SuiteOf(d, ss, ts) == [description |-> d, suites |-> ss, tests |-> ts]

\* Suite trees: flat, nested, with empty suites, with tests declared
\* beside suites.
Trees ==
  { SuiteOf("top", << >>, << >>),
    SuiteOf("top", << >>, <<TestOf("t1"), TestOf("t2"), TestOf("t3")>>),
    SuiteOf("top", <<SuiteOf("A", << >>, <<TestOf("t1"), TestOf("t2")>>)>>,
            <<TestOf("t3")>>),
    SuiteOf("top", <<SuiteOf("A", << >>, << >>)>>, <<TestOf("t1")>>),
    SuiteOf("top",
            <<SuiteOf("A", <<SuiteOf("B", << >>, <<TestOf("t1")>>)>>,
                      <<TestOf("t2")>>),
              SuiteOf("C", << >>, <<TestOf("t3")>>)>>,
            << >>),
    SuiteOf("top",
            <<SuiteOf("A", << >>, <<TestOf("t1")>>),
              SuiteOf("B", << >>, <<TestOf("t2"), TestOf("t3")>>)>>,
            <<TestOf("t4")>>) }

\* Values of --seed.
Seeds ==
  {-(MAX_INT32 - 1), -1, 0, 1, 2, 42, 2021, MAX_INT32 - 1, MAX_INT32}

\* State snapshots a page can report.
States == {"s1", "s2"}

\* The fields of a test that run_test reads.
Tests ==
  [retries : Option(0..MaxRetries), dpr : Option({2}),
   threshold : Option(0..MaxThreshold)]

NoTest == [retries |-> Undefined, dpr |-> Undefined, threshold |-> Undefined]

\* Result of Tests.run: error set or not, the early state, a bbox or not.
Results == [error : BOOLEAN, state : Option(States), bbox : BOOLEAN]

NoResult == [error |-> FALSE, state |-> Undefined, bbox |-> FALSE]

\* What an awaited evaluation comes back as: Value, Failure or Timeout.
Outputs == {"value", "failure", "timeout"}

\* ------------------------------------------------------------- state
VARIABLES
  pc,            \* where the runner is suspended
  exit_code,     \* the code given to process.exit (read when pc = "exited")
  interrupted,   \* the SIGINT handler ran
  argv,          \* command line
  scope,         \* the pages and suites explored
  checked,       \* check_version has answered
  ok0,           \* run: result of check_version
  failure,       \* run_tests: let failure
  thrown,        \* an exception is propagating out of the inner try
  client,        \* "none", "open", "closed"
  navigated,     \* Page.navigate({url}) was issued
  out_stream,    \* the report stream: "none", "open" or "ended"
  skips,         \* test.skip of every test of test_suite, after filtering
  idx,           \* position of test_case in test_suite (0 before the loop)
  test,          \* the test of test_case
  status,        \* the Status of test_case
  flagged,       \* a finished test ended with its failure or timeout flag set
  results,       \* status.failure of the finished tests, as report.json holds it
  entries,       \* let entries: console entries, by level and origin
  exceptions,    \* let exceptions: uncaught exceptions, by origin
  baseline_names,\* const baseline_names
  failures,      \* let failures
  skipped,       \* let skipped
  attempt,       \* run_test's attempt: 0 for null, i + 1 for retry i
  runs,          \* Tests.run evaluations issued for test_case
  may_retry,     \* run_test: let may_retry
  output,        \* run_test: const output ("none" or one of Outputs)
  result,        \* output.value
  overrides,     \* Emulation.setDeviceMetricsOverride calls not yet answered; the
                 \* browser answers them before the next command the runner awaits
  abandoned,     \* evaluations that timed out and still run in the page
  answer,        \* the answer the runner received last
  appended,      \* the texts the last step appended to status.errors
  wrote,         \* the files the last step wrote
  fatal,         \* fail() was called or an unexpected error was thrown
  orphans,       \* outdated baseline files found by the final check
  top_level,     \* the suite tree Tests.top_level answers with
  all_tests,     \* const all_tests: [...iter(top_level)]
  flat,          \* all_tests has been computed
  seed,          \* const seed
  random,        \* the seed field of the Random of the last run, after shuffle
  order,         \* test_suite as the last run shuffled it
  previous,      \* test_suite as the run before shuffled it
  shuffles,      \* runs that have shuffled
  generator,     \* a Random: its seed field, the calls of float() so far and
                 \* the numerator of the last float() over MAX_INT32 - 1
  sent,          \* the item of test_suite run last and the seq sent for it
  call,          \* the last call made to the library, with its arguments
  phase,         \* the document: "empty", "loaded" or "ready"
  attrs,         \* the attribute values of the models of the document
  events,        \* what the on_change subscriber of the document has received
  levels,        \* the level of every renderer of the plot
  invalidated,   \* the renderer views whose repaint is requested
  renders,       \* calls of render() of every renderer view
  hover_glyph,   \* whether the glyph renderer has a hover glyph (none: no plot)
  inspected,     \* data_source.inspected.indices
  selected,      \* data_source.selected.indices
  requests,      \* calls of request_render() of the renderer view
  links,         \* the plot whose range each plot of the row uses, per axis
  updates,       \* origins of the RangesUpdate events the listeners got
  scene          \* the glyph on display for hit testing, and its ranges

vars ==
  << pc, exit_code, interrupted, argv, scope, checked, ok0, failure, thrown,
     client, navigated, out_stream, skips, idx, test, status, flagged, entries, exceptions,
     baseline_names, failures, skipped, attempt, runs, may_retry, output,
     result, overrides, abandoned, answer, appended, wrote, fatal, orphans,
     results, top_level, all_tests, flat, seed, random, order, previous, shuffles,
     generator, sent,
     call, phase, attrs, events, levels, invalidated, renders,
     hover_glyph, inspected, selected, requests, links, updates, scene >>

\* Variable groups for UNCHANGED.
exitVars == << exit_code, interrupted >>
cfgVars == << argv, scope, checked, ok0 >>
sessVars == << failure, client, navigated, out_stream >>
errVars == << thrown, fatal >>
loopVars == << skips, idx, test, baseline_names >>
countVars == << failures, skipped, flagged, results >>
attemptVars == << attempt, runs, may_retry, output, result >>
bufVars == << entries, exceptions >>
stepVars == << answer, appended, wrote >>
suiteVars ==
  << top_level, all_tests, flat, seed, random, order, previous, shuffles,
     generator, sent >>
docVars == << phase, attrs, events >>
plotVars == << levels, invalidated, renders >>
toolVars == << hover_glyph, inspected, selected, requests >>
panVars == << links, updates >>
libVars == << call, docVars, plotVars, toolVars, panVars, scene >>

\* An entry of status.errors written by the runner itself; the texts of
\* console entries and exceptions are <<"console", origin>> and
\* <<"exception", origin>>.
E(text) == <<"runner", text>>

NoStatus ==
  [failure |-> FALSE, timeout |-> FALSE, skipped |-> FALSE,
   baseline_name |-> <<>>]

NoAnswer == [op |-> "none"]

\* Files a baseline directory may hold before the run.
DiskNames == {<<"a", "_">>, <<"a", "_", "_", "b">>, <<"o", "l", "d">>}
DiskFiles == {[name |-> n, ext |-> "blf"] : n \in DiskNames}

ReportOut == [name |-> <<"r", "e", "p", "o", "r", "t">>, ext |-> "out"]
ReportJson == [name |-> <<"r", "e", "p", "o", "r", "t">>, ext |-> "json"]

\* The state after the module is loaded, before main().
Start ==
  /\ pc = "get_version"
  /\ exit_code = 0
  /\ interrupted = FALSE
  /\ checked = FALSE
  /\ ok0 = FALSE
  /\ failure = FALSE
  /\ thrown = FALSE
  /\ client = "none"
  /\ navigated = FALSE
  /\ out_stream = "none"
  /\ skips = << >>
  /\ idx = 0
  /\ test = NoTest
  /\ status = NoStatus
  /\ flagged = FALSE
  /\ results = << >>
  /\ entries = {}
  /\ exceptions = {}
  /\ baseline_names = {}
  /\ failures = 0
  /\ skipped = 0
  /\ attempt = 0
  /\ runs = 0
  /\ may_retry = FALSE
  /\ output = "none"
  /\ result = NoResult
  /\ overrides = {}
  /\ abandoned = {}
  /\ answer = NoAnswer
  /\ appended = {}
  /\ wrote = {}
  /\ fatal = FALSE
  /\ orphans = {}

\* A suite without suites and tests.
NoSuite == [description |-> "top", suites |-> << >>, tests |-> << >>]

\* What reading an index outside an array gives: undefined, here an item
\* that is no test of any tree.
NoItem == [parents |-> << >>, test |-> TestOf("undefined")]

\* No Random has been constructed.
NoGenerator == [seed |-> 0, calls |-> -1, numerator |-> 0]

\* No suite tree is looked at.
Unloaded ==
  /\ generator = NoGenerator
  /\ sent = [item |-> NoItem, si |-> << >>, ti |-> -1]
  /\ top_level = NoSuite
  /\ all_tests = << >>
  /\ flat = FALSE
  /\ seed = 0
  /\ random = 0
  /\ order = << >>
  /\ previous = << >>
  /\ shuffles = 0

\* No call was made to the library and no document exists.
NoCall == [op |-> "none"]

Undisplayed ==
  /\ call = NoCall
  /\ phase = "empty"
  /\ attrs = << >>
  /\ events = << >>
  /\ levels = << >>
  /\ invalidated = {}
  /\ renders = << >>
  /\ hover_glyph = Undefined
  /\ inspected = << >>
  /\ selected = << >>
  /\ requests = 0
  /\ links = << >>
  /\ updates = << >>
  /\ scene = [glyph |-> "none"]

\* Every command line without --retry, over suites of up to MaxTests
\* tests that may declare retries.
Init ==
  /\ Start
  /\ Undisplayed
  /\ Unloaded
  /\ argv \in {a \in Argvs : ~a.retry}
  /\ scope = [lingers |-> FALSE, dpr |-> FALSE, threshold |-> FALSE,
              retries |-> TRUE, tests |-> MaxTests,
              report |-> FALSE]

\* Runs that compare states and images, with and without --retry, over
\* suites of one test that may declare retries.
InitRetry ==
  /\ Start
  /\ Undisplayed
  /\ Unloaded
  /\ argv \in {a \in Argvs : ~a.info /\ a.baselinesRoot /\ a.screenshot = "test"}
  /\ scope = [lingers |-> FALSE, dpr |-> FALSE, threshold |-> FALSE,
              retries |-> TRUE, tests |-> RetryTests,
              report |-> FALSE]

\* Runs that compare images in mode "test", over suites of one test
\* that may declare a threshold and retries.
InitImage ==
  /\ Start
  /\ Undisplayed
  /\ Unloaded
  /\ argv \in {a \in Argvs : /\ ~a.info /\ ~a.retry /\ a.baselinesRoot
                              /\ a.screenshot = "test"}
  /\ scope = [lingers |-> FALSE, dpr |-> FALSE, threshold |-> TRUE,
              retries |-> TRUE, tests |-> RetryTests,
              report |-> FALSE]

\* Runs with a baselines root that write report.json, over suites of up
\* to MaxTests tests.
InitReport ==
  /\ Start
  /\ Undisplayed
  /\ Unloaded
  /\ argv \in {a \in Argvs : /\ ~a.info /\ ~a.retry /\ a.baselinesRoot
                              /\ a.screenshot = "test"}
  /\ scope = [lingers |-> FALSE, dpr |-> FALSE, threshold |-> FALSE,
              retries |-> FALSE, tests |-> MaxTests,
              report |-> TRUE]

\* The pages whose abandoned evaluations go on running and whose tests
\* may declare a dpr, run without --info and --retry.
InitPage ==
  /\ Start
  /\ Undisplayed
  /\ Unloaded
  /\ argv \in {a \in Argvs : ~a.info /\ ~a.retry /\ a.screenshot = "test"}
  /\ scope = [lingers |-> TRUE, dpr |-> TRUE, threshold |-> FALSE,
              retries |-> FALSE, tests |-> MaxTests,
              report |-> FALSE]

\* ---------------------------------------------------- pure functions
\* encode: every blank, slash and square bracket becomes an underscore.
encode(s) ==
  [i \in DOMAIN s |-> IF s[i] \in {" ", "/", "[", "]"} THEN "_" ELSE s[i]]

RECURSIVE join(_, _)
\* Array.prototype.join of a non-empty list of strings.
join(strs, sep) ==
  IF Len(strs) = 1 THEN strs[1]
  ELSE strs[1] \o sep \o join(Tail(strs), sep)

\* description(suites, test, sep): the joined descriptions of the chain.
description(descs, sep) == join(descs, sep)

\* The baseline name of a test with the descriptions descs (line 465).
baseline_name_of(descs) == encode(description(descs, <<"_", "_">>))

\* create_baseline renders a list of states as the text that is compared
\* and stored.
create_baseline(items) == <<"baseline">> \o items

\* A flattening that yields the tests a suite declares itself and leaves
\* the suites inside it out.
iter_own_tests(suite, parents) ==
  [i \in 1..Len(suite.tests) |->
     [parents |-> parents, test |-> suite.tests[i]]]

\* iter (lines 281-289): the tests of the suites of a suite, in the order
\* of suites, then its own tests, each with the chain of suites above it.
RECURSIVE iter(_, _)
iter(suite, parents) ==
  LET RECURSIVE of_suites(_)
      of_suites(k) ==
        IF k > Len(suite.suites) THEN << >>
        ELSE iter(suite.suites[k], Append(parents, suite.suites[k]))
               \o of_suites(k + 1)
      of_tests == [i \in 1..Len(suite.tests) |->
                     [parents |-> parents, test |-> suite.tests[i]]]
  IN  of_suites(1) \o of_tests

\* Array.prototype.indexOf, 0-based: the first index of x, -1 when x is no
\* element.  The elements are objects of one tree, equal only to
\* themselves.
indexOf(q, x) ==
  IF \E i \in DOMAIN q : q[i] = x
  THEN (CHOOSE i \in DOMAIN q :
          q[i] = x /\ \A k \in DOMAIN q : q[k] = x => i <= k) - 1
  ELSE -1

\* An identifier that looks for the test among the tests of top_level.
to_seq_flat(top, suites, t) ==
  [si |-> << >>, ti |-> indexOf(top.tests, t)]

\* to_seq (lines 352-361) with top_level = top: the index of every suite
\* of the chain in the suite above it, then the index of the test in the
\* last suite.
to_seq(top, suites, t) ==
  LET RECURSIVE from(_, _)
      from(current, rest) ==
        IF rest = << >>
        THEN [si |-> << >>, ti |-> indexOf(current.tests, t)]
        ELSE LET r == from(Head(rest), Tail(rest))
             IN  [si |-> << indexOf(current.suites, Head(rest)) >> \o r.si,
                  ti |-> r.ti]
  IN  from(top, suites)

\* The % of the program: the remainder has the sign of the dividend.
remainder(a, m) == IF a >= 0 THEN a % m ELSE -((-a) % m)

\* A generator that goes on from the state the last one was left in.
Random_kept(sd) ==
  IF random # 0 THEN random
  ELSE LET r == remainder(sd, MAX_INT32)
       IN  IF r <= 0 THEN r + (MAX_INT32 - 1) ELSE r

\* new Random(seed) (lines 19-23): the seed field.
Random_new(sd) ==
  LET r == remainder(sd, MAX_INT32)
  IN  IF r <= 0 THEN r + (MAX_INT32 - 1) ELSE r

\* Random.integer (lines 25-28): (48271*seed) % MAX_INT32 for a seed in
\* 0..MAX_INT32-1.  The product needs 47 bits, which the program's
\* doubles hold exactly; here it is split as a*(x % q) - r*(x \div q)
\* with q = m \div a and r = m % a, which is the same number modulo m
\* with every intermediate below 2^31.
integer(x) ==
  LET q == MAX_INT32 \div Multiplier
      r == MAX_INT32 % Multiplier
      t == Multiplier * (x % q) - r * (x \div q)
  IN  IF t < 0 THEN t + MAX_INT32 ELSE t

\* Math.floor(random.float()*k) for the integer x that random.integer()
\* returned: the largest j with j*(MAX_INT32 - 1) <= (x - 1)*k, -1 when
\* x is 0.  j*(MAX_INT32 - 1)/k is rounded up without the product.
floor_float_times(x, k) ==
  LET d == MAX_INT32 - 1
      atLeast(j) == j * (d \div k) + ((j * (d % k) + k - 1) \div k)
  IN  IF x < 1 THEN -1
      ELSE CHOOSE j \in 0..(k - 1) :
             /\ atLeast(j) <= x - 1
             /\ j < k - 1 => atLeast(j + 1) > x - 1

\* shuffle (lines 35-42) from the 0-based index i down, with the
\* generator in state rnd: the array and the state of the generator at
\* the end.  An index j of -1 is no element of the array: array[-1] reads
\* and writes the property "-1" of the object, kept in `minus`.
RECURSIVE shuffle_from(_, _, _, _)
shuffle_from(array, minus, rnd, i) ==
  IF i <= 0 THEN [array |-> array, seed |-> rnd]
  ELSE LET x == integer(rnd)
           j == floor_float_times(x, i + 1)
           temp == array[i + 1]
       IN  IF j < 0
           THEN shuffle_from([array EXCEPT ![i + 1] = minus], temp, x, i - 1)
           ELSE shuffle_from([array EXCEPT ![i + 1] = array[j + 1],
                                           ![j + 1] = temp],
                             minus, x, i - 1)

\* shuffle(array, random).
shuffle(array, rnd) == shuffle_from(array, NoItem, rnd, Len(array) - 1)

\* check_version: the major number of the browser string, "0" when the
\* pattern did not match, against the minimum.
check_version(v) ==
  LET major == IF v.match THEN v.major ELSE 0
  IN  chromium_min_version <= major

\* ------------------------------------------------------------ actions
\* What a step of the runner leaves in answer, appended and wrote.
Step(ans, texts, files) ==
  /\ answer' = ans
  /\ appended' = texts
  /\ wrote' = files

\* A step that reads no answer worth keeping, appends and writes nothing.
Quiet == Step(NoAnswer, {}, {})

\* fail(msg): throw new Exit(1) inside the inner try of run_tests.
fail ==
  /\ thrown' = TRUE
  /\ fatal' = TRUE
  /\ pc' = "discard"

\* main: get_version() rejected; the catch of main exits with 1.
GetVersionFails ==
  /\ pc = "get_version"
  /\ pc' = "exited"
  /\ exit_code' = 1
  /\ fatal' = TRUE
  /\ Quiet
  /\ UNCHANGED << libVars, suiteVars, interrupted, cfgVars, sessVars, thrown, loopVars, countVars,
                  attemptVars, bufVars, status, overrides, abandoned, orphans >>

\* What run does once check_version has answered (line 739).
after_check_version == IF argv.info THEN "exit" ELSE "connect"

\* run (lines 736-739): get_version() answered, ok0 is computed, then
\* run_tests is called unless --info.
CheckVersion ==
  /\ pc = "get_version"
  /\ \E version \in Versions :
       /\ ok0' = check_version(version)
       /\ Step([op |-> "version", version |-> version], {}, {})
  /\ checked' = TRUE
  /\ pc' = after_check_version
  /\ UNCHANGED << libVars, suiteVars, exitVars, argv, scope, sessVars, errVars, loopVars, countVars,
                  attemptVars, bufVars, status, overrides, abandoned, orphans >>

\* run_tests: CDP({port}) connected; Network, Page, Runtime, Log and
\* Performance are enabled, override_metrics() is called without await,
\* and Page.navigate({url}) is issued.
Connect ==
  /\ pc = "connect"
  /\ client' = "open"
  /\ overrides' = {"default"}
  /\ navigated' = TRUE
  /\ pc' = "navigate"
  /\ Quiet
  /\ UNCHANGED << libVars, suiteVars, exitVars, cfgVars, failure, out_stream, errVars, loopVars,
                  countVars, attemptVars, bufVars, status, abandoned, orphans >>

\* run_tests: CDP({port}) rejected; client stays undefined and the outer
\* catch sets failure.
ConnectFails ==
  /\ pc = "connect"
  /\ failure' = TRUE
  /\ fatal' = TRUE
  /\ pc' = "exit"
  /\ Quiet
  /\ UNCHANGED << libVars, suiteVars, exitVars, cfgVars, client, navigated, out_stream, thrown,
                  loopVars, countVars, attemptVars, bufVars, status, overrides,
                  abandoned, orphans >>

\* The events the page has emitted since the buffers were emptied.
emitted == Cardinality(entries) + Cardinality(exceptions)

\* Runtime.exceptionThrown while the page loads.
LoadException ==
  /\ pc \in {"navigate", "load"}
  /\ emitted < MaxEvents
  /\ exceptions' = exceptions \cup {"load"}
  /\ UNCHANGED << libVars, suiteVars, pc, exitVars, cfgVars, sessVars, errVars, loopVars, countVars,
                  attemptVars, entries, stepVars, status, overrides, abandoned,
                  orphans >>

\* Page.navigate({url}) answered: errorText, then the exceptions so far.
NavigateDone ==
  /\ pc = "navigate"
  /\ \E errorText \in BOOLEAN :
       /\ IF errorText \/ exceptions # {}
          THEN fail
          ELSE /\ pc' = "load"
               /\ UNCHANGED errVars
       /\ Step([op |-> "navigate", errorText |-> errorText], {}, {})
  /\ overrides' = {}
  /\ UNCHANGED << libVars, suiteVars, exitVars, cfgVars, sessVars, loopVars, countVars, attemptVars,
                  bufVars, status, abandoned, orphans >>

\* Page.loadEventFired(), preload_fonts() and is_ready() answered.
LoadDone ==
  /\ pc = "load"
  /\ \E ready \in BOOLEAN :
       /\ IF ~ready
          THEN fail
          ELSE /\ pc' = "discover"
               /\ UNCHANGED errVars
       /\ Step([op |-> "is_ready", ready |-> ready], {}, {})
  /\ UNCHANGED << libVars, suiteVars, exitVars, cfgVars, sessVars, loopVars, countVars, attemptVars,
                  bufVars, status, overrides, abandoned, orphans >>

\* A filter that keeps the declared skip of a test only when the test is
\* not matched.
mark_skipped_unless_matched(declared, k, grep, inK, inGrep) ==
  [i \in DOMAIN declared |->
     IF k \/ grep
     THEN (k /\ ~inK[i]) \/ (grep /\ ~inGrep[i])
     ELSE declared[i]]

\* Lines 308-329: test.skip of every test after filtering.  declared is
\* test.skip as the page sent it; k and grep say whether -k and --grep are
\* given; inK[i] says some keyword occurs in the description of test i,
\* inGrep[i] that some regular expression matches it.
mark_skipped(declared, k, grep, inK, inGrep) ==
  [i \in DOMAIN declared |->
     declared[i] \/ (k /\ ~inK[i]) \/ (grep /\ ~inGrep[i])]

\* A check that only an empty suite fails.
nothing_to_test_when_empty(s) == Len(s) = 0

\* Lines 331-337: the suite is empty, or no test is left unskipped.
nothing_to_test(s) == Len(s) = 0 \/ \A i \in DOMAIN s : s[i]

\* The suites of n tests Tests.top_level can answer with and the filters
\* the command line can give; a filter that is not given matches nothing
\* and everything.
SuiteAnswers(n) ==
  {a \in [declared : [1..n -> BOOLEAN], k : BOOLEAN, grep : BOOLEAN,
          inK : [1..n -> BOOLEAN], inGrep : [1..n -> BOOLEAN]] :
     /\ ~a.k => \A i \in 1..n : a.inK[i]
     /\ ~a.grep => \A i \in 1..n : a.inGrep[i]}

\* Tests.top_level answered with the suite: the filters, the checks for
\* an empty or wholly skipped test_suite, add_datapoint() and the report
\* stream.
Discover ==
  /\ pc = "discover"
  /\ \E n \in 0..scope.tests : \E a \in SuiteAnswers(n) :
       LET s == mark_skipped(a.declared, a.k, a.grep, a.inK, a.inGrep)
           ans == [op |-> "top_level", tests |-> n, suite |-> a]
       IN  /\ skips' = s
           /\ IF nothing_to_test(s)
              THEN /\ fail
                   /\ Step(ans, {}, {})
                   /\ UNCHANGED out_stream
              ELSE /\ out_stream' = IF argv.baselinesRoot THEN "open" ELSE "none"
                   /\ Step(ans, {},
                           IF argv.baselinesRoot THEN {ReportOut} ELSE {})
                   /\ pc' = "loop"
                   /\ UNCHANGED errVars
  /\ UNCHANGED << libVars, suiteVars, exitVars, cfgVars, failure, client, navigated, idx, test,
                  baseline_names, countVars, attemptVars, bufVars, status,
                  overrides, abandoned, orphans >>

\* Tests.top_level answered with a Failure or timed out (tests is -1).
DiscoverFails ==
  /\ pc = "discover"
  /\ fail
  /\ Step([op |-> "top_level", tests |-> -1, suite |-> << >>], {}, {})
  /\ UNCHANGED << libVars, suiteVars, exitVars, cfgVars, sessVars, loopVars, countVars, attemptVars,
                  bufVars, status, overrides, abandoned, orphans >>

\* ------------------------------------------------------ the test loop
\* Lines 642-648 after test i with the Status st: the counters, then the
\* next test or the end of the loop.  test_case, test and status are
\* constants of the loop body and end with it.
EndIteration(st, i) ==
  /\ skipped' = IF st.skipped THEN skipped + 1 ELSE skipped
  /\ failures' = IF st.failure \/ st.timeout THEN failures + 1 ELSE failures
  /\ flagged' = (flagged \/ st.failure \/ st.timeout)
  /\ results' = IF scope.report THEN Append(results, st.failure) ELSE results
  /\ status' = NoStatus
  /\ test' = NoTest
  /\ attempt' = 0
  /\ runs' = 0
  /\ may_retry' = FALSE
  /\ output' = "none"
  /\ result' = NoResult
  /\ pc' = IF i = Len(skips) THEN "finalize" ELSE "loop"

\* run_test up to its first await (lines 479-485), as the n-th run of
\* the test: override_metrics(dpr) is called without await when the test
\* has a dpr, then Tests.run is issued.
IssueRun(t, n) ==
  /\ runs' = n
  /\ may_retry' = FALSE
  /\ output' = "none"
  /\ result' = NoResult
  /\ overrides' = IF t.dpr # Undefined THEN {"dpr"} ELSE {}
  /\ pc' = "run"

\* A duplicate check that records the name and never marks the test.
duplicate_check_unmarked(name) ==
  [st |-> [NoStatus EXCEPT !.baseline_name = name], texts |-> {}]

\* The duplicate check (lines 465-473) of a test named `name`: its
\* Status and the text appended.
duplicate_check(name) ==
  IF name \in baseline_names
  THEN [st |-> [NoStatus EXCEPT !.baseline_name = name, !.failure = TRUE],
        texts |-> {E("duplicated description")}]
  ELSE [st |-> [NoStatus EXCEPT !.baseline_name = name], texts |-> {}]

\* The tests a suite of the explored scope can hold.
TestsIn(sc) ==
  {t \in Tests : /\ ~sc.dpr => t.dpr = Undefined
                 /\ ~sc.threshold => t.threshold = Undefined
                 /\ ~sc.retries => t.retries = Undefined}

\* What becomes of the evaluations left running when the one the runner
\* awaited came back as `out`.
abandon(out) ==
  IF out = "timeout" /\ scope.lingers THEN abandoned \cup {"own"} ELSE abandoned

\* Top of the loop body (lines 459-477): the buffers are emptied, the
\* baseline name is checked, a skipped test is counted, any other test
\* starts run_test(null, status).
TestStart ==
  /\ pc = "loop"
  /\ idx < Len(skips)
  /\ idx' = idx + 1
  /\ entries' = {}
  /\ exceptions' = {}
  /\ abandoned' = IF abandoned = {} THEN {} ELSE {"earlier"}
  /\ \E descs \in Descriptions : \E t \in TestsIn(scope) :
       LET name == baseline_name_of(descs)
           d == duplicate_check(name)
       IN  /\ baseline_names' = baseline_names \cup {name}
           /\ Step(NoAnswer, d.texts, {})
           /\ IF skips[idx + 1]
              THEN /\ EndIteration([d.st EXCEPT !.skipped = TRUE], idx + 1)
                   /\ UNCHANGED overrides
              ELSE /\ status' = d.st
                   /\ test' = t
                   /\ attempt' = 0
                   /\ IssueRun(t, 1)
                   /\ UNCHANGED countVars
  /\ UNCHANGED << libVars, suiteVars, exitVars, cfgVars, sessVars, errVars, skips, orphans >>

\* A collection where a console error fails the test as an exception
\* does (line 496 left in).
collect_events_chatty(st) ==
  LET errors == {e \in entries : e.level = "error"}
  IN  [st |-> [st EXCEPT !.failure = @ \/ exceptions # {} \/ errors # {}],
       texts |-> {<<"console", e.origin>> : e \in errors}
                   \cup {<<"exception", o>> : o \in exceptions}]

\* Lines 493-502: console errors and exceptions of the buffers go to the
\* error list; only exceptions set the failure flag.
collect_events(st) ==
  LET errors == {e \in entries : e.level = "error"}
  IN  [st |-> [st EXCEPT !.failure = @ \/ exceptions # {}],
       texts |-> {<<"console", e.origin>> : e \in errors}
                   \cup {<<"exception", o>> : o \in exceptions}]

\* A run_test that returns after the state comparison of a result
\* without bbox, with no finally.
after_state_returns(res) == IF res.bbox THEN "screenshot" ELSE "loop"

\* Where run_test goes after the state comparison (lines 570-573): the
\* screenshot when the result has a bbox, else the finally with
\* Tests.clear.
after_state(res) == IF res.bbox THEN "screenshot" ELSE "clear"

\* A switch that takes a Failure or a Timeout for a value without
\* error, state or bbox.
switch_output_lenient(st, out, res) ==
  IF ~argv.baselinesRoot \/ out # "value"
  THEN [st |-> IF out = "value" /\ res.error
               THEN [st EXCEPT !.failure = TRUE] ELSE st,
        texts |-> {}, pc |-> "clear"]
  ELSE IF res.state = Undefined
       THEN [st |-> [st EXCEPT !.failure = TRUE],
             texts |-> {E("state not present in output")},
             pc |-> after_state(res)]
       ELSE [st |-> IF res.error THEN [st EXCEPT !.failure = TRUE] ELSE st,
             texts |-> {}, pc |-> "get_state"]

\* A switch that asks for the state whether or not there is a baselines
\* root.
switch_output_compares(st, out, res) ==
  CASE out = "failure" ->
         [st |-> [st EXCEPT !.failure = TRUE],
          texts |-> {E("failure text")}, pc |-> "clear"]
    [] out = "timeout" ->
         [st |-> [st EXCEPT !.timeout = TRUE],
          texts |-> {E("timeout")}, pc |-> "clear"]
    [] OTHER ->
         LET st1 == IF res.error THEN [st EXCEPT !.failure = TRUE] ELSE st
             texts1 == IF res.error THEN {E("result.error")} ELSE {}
         IN  IF res.state = Undefined
             THEN [st |-> [st1 EXCEPT !.failure = TRUE],
                   texts |-> texts1 \cup {E("state not present in output")},
                   pc |-> after_state(res)]
             ELSE [st |-> st1, texts |-> texts1, pc |-> "get_state"]

\* Lines 504-527 for the output `out` with value `res` and the status st:
\* the switch on Failure, Timeout and Value, up to the next await.
switch_output(st, out, res) ==
  CASE out = "failure" ->
         [st |-> [st EXCEPT !.failure = TRUE],
          texts |-> {E("failure text")}, pc |-> "clear"]
    [] out = "timeout" ->
         [st |-> [st EXCEPT !.timeout = TRUE],
          texts |-> {E("timeout")}, pc |-> "clear"]
    [] OTHER ->
         LET st1 == IF res.error THEN [st EXCEPT !.failure = TRUE] ELSE st
             texts1 == IF res.error THEN {E("result.error")} ELSE {}
         IN  IF ~argv.baselinesRoot
             THEN [st |-> st1, texts |-> texts1, pc |-> "clear"]
             ELSE IF res.state = Undefined
                  THEN [st |-> [st1 EXCEPT !.failure = TRUE],
                        texts |-> texts1 \cup {E("state not present in output")},
                        pc |-> after_state(res)]
                  ELSE [st |-> st1, texts |-> texts1, pc |-> "get_state"]

\* The parts of the value `res` that run_test has yet to read when it
\* is suspended at `at`.
unread(res, at) ==
  CASE at = "get_state" -> [res EXCEPT !.error = FALSE]
    [] at = "screenshot" -> [NoResult EXCEPT !.bbox = TRUE]
    [] OTHER -> NoResult

\* Lines 492-527: the events, then the switch.
Collect(out, res) ==
  LET c == collect_events(status)
      s == switch_output(c.st, out, res)
  IN  /\ status' = s.st
      /\ appended' = c.texts \cup s.texts
      /\ result' = unread(res, s.pc)
      /\ pc' = s.pc

\* Tests.run answered or timed out (lines 481-491): override_metrics()
\* without await when the test has a dpr, then add_datapoint(), which
\* awaits Performance.getMetrics only with a baselines root.
RunDone ==
  /\ pc = "run"
  /\ \E out \in Outputs :
     \E res \in IF out = "value" THEN Results ELSE {NoResult} :
       /\ output' = out
       /\ abandoned' = abandon(out)
       /\ overrides' = IF test.dpr # Undefined THEN {"default"} ELSE {}
       /\ answer' = [op |-> "run", out |-> out]
       /\ wrote' = {}
       /\ IF argv.baselinesRoot
          THEN /\ pc' = "datapoint"
               /\ result' = res
               /\ appended' = {}
               /\ UNCHANGED status
          ELSE Collect(out, res)
  /\ UNCHANGED << libVars, suiteVars, exitVars, cfgVars, sessVars, errVars, loopVars, countVars,
                  attempt, runs, may_retry, bufVars, orphans >>

\* Performance.getMetrics answered (line 491), then lines 492-527.
DatapointDone ==
  /\ pc = "datapoint"
  /\ Collect(output, result)
  /\ answer' = [op |-> "getMetrics"]
  /\ wrote' = {}
  /\ overrides' = {}
  /\ UNCHANGED << libVars, suiteVars, exitVars, cfgVars, sessVars, errVars, loopVars, countVars,
                  attempt, runs, may_retry, output, bufVars, abandoned,
                  orphans >>

\* A comparison that takes the later state alone and never looks at the
\* early one.
compare_state_later_only(st, early, later, existing) ==
  LET baseline == create_baseline(<<later>>)
  IN  IF existing # Some(baseline)
      THEN [st |-> [st EXCEPT !.failure = TRUE],
            texts |-> {E("diff")} \cup
                        (IF existing = Undefined
                         THEN {E("missing baseline")} ELSE {}),
            files |-> {"blf"},
            retry |-> (existing # Undefined /\ test.retries # Undefined)]
      ELSE [st |-> st, texts |-> {}, files |-> {"blf"}, retry |-> FALSE]

\* A comparison that takes a missing baseline for a changed one.
compare_state_missing_as_changed(st, early, later, existing) ==
  LET baseline_early == create_baseline(<<early>>)
      baseline == create_baseline(<<later>>)
  IN  IF baseline_early # baseline
      THEN [st |-> [st EXCEPT !.failure = TRUE],
            texts |-> {E("inconsistent state"), E("early:"), E("later:")},
            files |-> {}, retry |-> FALSE]
      ELSE IF existing # Some(baseline)
           THEN [st |-> [st EXCEPT !.failure = TRUE],
                 texts |-> {E("diff")},
                 files |-> {"blf"},
                 retry |-> test.retries # Undefined]
           ELSE [st |-> st, texts |-> {}, files |-> {"blf"}, retry |-> FALSE]

\* A comparison that writes the file only when the stored baseline
\* differs from it.
compare_state_write_on_change(st, early, later, existing) ==
  LET baseline_early == create_baseline(<<early>>)
      baseline == create_baseline(<<later>>)
  IN  IF baseline_early # baseline
      THEN [st |-> [st EXCEPT !.failure = TRUE],
            texts |-> {E("inconsistent state"), E("early:"), E("later:")},
            files |-> {}, retry |-> FALSE]
      ELSE IF existing # Some(baseline)
           THEN [st |-> [st EXCEPT !.failure = TRUE],
                 texts |-> {E("diff")} \cup
                             (IF existing = Undefined
                              THEN {E("missing baseline")} ELSE {}),
                 files |-> {"blf"},
                 retry |-> (existing # Undefined /\ test.retries # Undefined)]
           ELSE [st |-> st, texts |-> {}, files |-> {}, retry |-> FALSE]

\* Lines 534-565 for the early state, the later state and the stored
\* baseline `existing` (load_baseline): an inconsistent state returns
\* early; else the baseline file is written and compared with the stored
\* one.
compare_state(st, early, later, existing) ==
  LET baseline_early == create_baseline(<<early>>)
      baseline == create_baseline(<<later>>)
  IN  IF baseline_early # baseline
      THEN [st |-> [st EXCEPT !.failure = TRUE],
            texts |-> {E("inconsistent state"), E("early:"), E("later:")},
            files |-> {}, retry |-> FALSE]
      ELSE IF existing # Some(baseline)
           THEN [st |-> [st EXCEPT !.failure = TRUE],
                 texts |-> {E("diff")} \cup
                             (IF existing = Undefined
                              THEN {E("missing baseline")} ELSE {}),
                 files |-> {"blf"},
                 retry |-> (existing # Undefined /\ test.retries # Undefined)]
           ELSE [st |-> st, texts |-> {}, files |-> {"blf"}, retry |-> FALSE]

\* The answers Tests.get_state and load_baseline can give after the early
\* state `early`; the stored baseline is read only when the states agree.
StateAnswers(early) ==
  {a \in [out : Outputs, later : Option(States), stored : Option(States)] :
     /\ a.out # "value" => a.later = Undefined
     /\ a.later # Some(early) => a.stored = Undefined}

\* Tests.get_state answered or timed out (lines 527-573).
GetStateDone ==
  /\ pc = "get_state"
  /\ \E a \in StateAnswers(Get(result.state)) :
       LET existing == IF a.stored = Undefined THEN Undefined
                       ELSE Some(create_baseline(<<Get(a.stored)>>))
       IN
       /\ abandoned' = abandon(a.out)
       /\ answer' = [op |-> "get_state", out |-> a.out, early |-> result.state,
                     later |-> a.later, stored |-> a.stored]
       /\ IF a.out # "value" \/ a.later = Undefined
          THEN /\ status' = [status EXCEPT !.failure = TRUE]
               /\ appended' = {E("state not present in output")}
               /\ wrote' = {}
               /\ UNCHANGED may_retry
          ELSE LET c == compare_state(status, Get(result.state), Get(a.later),
                                      existing)
               IN  /\ status' = c.st
                   /\ appended' = c.texts
                   /\ wrote' = c.files
                   /\ may_retry' = (may_retry \/ c.retry)
  /\ pc' = after_state(result)
  /\ result' = unread(result, after_state(result))
  /\ overrides' = {}
  /\ UNCHANGED << libVars, suiteVars, exitVars, cfgVars, sessVars, errVars, loopVars, countVars,
                  attempt, runs, output, bufVars, orphans >>

\* A comparison that tolerates only differences below the threshold.
compare_image_below(st, existing, diff_result, threshold) ==
  IF existing = "none"
  THEN [st |-> [st EXCEPT !.failure = TRUE],
        texts |-> {E("missing baseline image")},
        files |-> {"png"}, retry |-> FALSE, throws |-> FALSE]
  ELSE IF existing = "differ" /\ diff_result # Undefined
       THEN IF Get(diff_result) >=
                 (IF threshold = Undefined THEN 0 ELSE Get(threshold))
            THEN [st |-> [st EXCEPT !.failure = TRUE],
                  texts |-> {E("images differ")},
                  files |-> {"png"}, retry |-> TRUE, throws |-> FALSE]
            ELSE [st |-> st, texts |-> {}, files |-> {},
                  retry |-> TRUE, throws |-> FALSE]
       ELSE [st |-> st, texts |-> {}, files |-> {}, retry |-> FALSE,
             throws |-> FALSE]

\* Lines 581-614 for the reference image `existing` ("none", "equal",
\* "differ"), the answer of diff_image (Undefined or the pixel count) and
\* the threshold of the test.
compare_image(st, existing, diff_result, threshold) ==
  CASE argv.screenshot = "test" ->
         IF existing = "none"
         THEN [st |-> [st EXCEPT !.failure = TRUE],
               texts |-> {E("missing baseline image")},
               files |-> {"png"}, retry |-> FALSE, throws |-> FALSE]
         ELSE IF existing = "differ" /\ diff_result # Undefined
              THEN IF Get(diff_result) >
                        (IF threshold = Undefined THEN 0 ELSE Get(threshold))
                   THEN [st |-> [st EXCEPT !.failure = TRUE],
                         texts |-> {E("images differ")},
                         files |-> {"png"}, retry |-> TRUE, throws |-> FALSE]
                   ELSE [st |-> st, texts |-> {}, files |-> {},
                         retry |-> TRUE, throws |-> FALSE]
              ELSE [st |-> st, texts |-> {}, files |-> {}, retry |-> FALSE,
                    throws |-> FALSE]
    [] argv.screenshot = "save" ->
         [st |-> st, texts |-> {}, files |-> {"png"}, retry |-> FALSE,
          throws |-> FALSE]
    [] argv.screenshot = "skip" ->
         [st |-> st, texts |-> {}, files |-> {}, retry |-> FALSE,
          throws |-> FALSE]
    [] OTHER ->
         [st |-> st, texts |-> {}, files |-> {}, retry |-> FALSE,
          throws |-> TRUE]

\* The answers load_baseline_image and diff_image can give; the reference
\* is looked at only in mode "test", diff_image is called only when the
\* images differ.
ImageAnswers ==
  {a \in [existing : {"none", "equal", "differ"},
          diff_result : Option(0..MaxPixels)] :
     /\ argv.screenshot # "test" => a.existing = "none"
     /\ a.existing # "differ" => a.diff_result = Undefined}

\* Page.captureScreenshot answered (lines 573-616); an invalid
\* --screenshot throws, which the finally of run_test lets through after
\* Tests.clear.
ScreenshotDone ==
  /\ pc = "screenshot"
  /\ \E a \in ImageAnswers :
       LET c == compare_image(status, a.existing, a.diff_result, test.threshold)
       IN  /\ status' = c.st
           /\ may_retry' = (may_retry \/ c.retry)
           /\ thrown' = c.throws
           /\ fatal' = (fatal \/ c.throws)
           /\ Step([op |-> "screenshot", existing |-> a.existing,
                    diff_result |-> a.diff_result], c.texts, c.files)
  /\ pc' = "clear"
  /\ result' = NoResult
  /\ overrides' = {}
  /\ UNCHANGED << libVars, suiteVars, exitVars, cfgVars, sessVars, loopVars, countVars, attempt,
                  runs, output, bufVars, abandoned, orphans >>

\* The number of retries of the loop at line 632.
retries_of(t) == IF t.retries # Undefined THEN Get(t.retries) ELSE DefaultRetries

\* A retry loop whose bound is off by one.
do_retry_one_more ==
  IF attempt = 0
  THEN (argv.retry \/ test.retries # Undefined) /\ may_retry
  ELSE may_retry /\ attempt <= retries_of(test)

\* A retry loop that every test enters.
do_retry_unasked ==
  IF attempt = 0
  THEN may_retry /\ 0 < retries_of(test)
  ELSE may_retry /\ attempt < retries_of(test)

\* Lines 630-639: whether another run_test follows the attempt that just
\* returned may_retry.
do_retry ==
  IF attempt = 0
  THEN (argv.retry \/ test.retries # Undefined) /\ may_retry /\ 0 < retries_of(test)
  ELSE may_retry /\ attempt < retries_of(test)

\* A finally that takes a Tests.clear without Failure for a clean slate.
clear_status_reset(st, out) ==
  IF out = "failure" THEN [st EXCEPT !.failure = TRUE]
  ELSE [st EXCEPT !.failure = FALSE, !.timeout = FALSE]

\* Lines 620-624: a Failure of Tests.clear marks the test.
clear_status(st, out) ==
  IF out = "failure" THEN [st EXCEPT !.failure = TRUE] ELSE st

\* Tests.clear answered or timed out (lines 620-648): a pending exception
\* leaves the loop; else the retry loop goes on or the test is counted.
ClearDone ==
  /\ pc = "clear"
  /\ \E out \in Outputs :
       /\ abandoned' = abandon(out)
       /\ Step([op |-> "clear", out |-> out],
               IF out = "failure" THEN {E("failure text")} ELSE {}, {})
       /\ IF thrown
          THEN /\ status' = clear_status(status, out)
               /\ pc' = "discard"
               /\ overrides' = {}
               /\ UNCHANGED << libVars, suiteVars, attemptVars, countVars, test >>
          ELSE IF do_retry
               THEN /\ status' = clear_status(status, out)
                    /\ attempt' = attempt + 1
                    /\ IssueRun(test, runs + 1)
                    /\ UNCHANGED << libVars, suiteVars, countVars, test >>
               ELSE /\ EndIteration(clear_status(status, out), idx)
                    /\ overrides' = {}
  /\ UNCHANGED << libVars, suiteVars, exitVars, cfgVars, sessVars, errVars, skips, idx,
                  baseline_names, bufVars, orphans >>

\* ------------------------------------------------- events of the page
\* The awaits whose events run_test reads before the next Tests.run: the
\* buffers are read at lines 493-500, right after add_datapoint().
EventAwaits == {"run", "datapoint"}

\* The evaluations running in the page: the one the runner awaits and the
\* abandoned ones.
running == abandoned \cup (IF pc = "run" THEN {"own"} ELSE {})

\* Runtime.consoleAPICalled / Log.entryAdded (lines 143-155).
ConsoleEvent ==
  /\ pc \in EventAwaits
  /\ emitted < MaxEvents
  /\ \E o \in running :
       entries' = entries \cup {[level |-> "error", origin |-> o]}
  /\ UNCHANGED << libVars, suiteVars, pc, exitVars, cfgVars, sessVars, errVars, loopVars, countVars,
                  attemptVars, exceptions, stepVars, status, overrides,
                  abandoned, orphans >>

\* Runtime.exceptionThrown (lines 157-159).
ExceptionEvent ==
  /\ pc \in EventAwaits
  /\ emitted < MaxEvents
  /\ \E o \in running : exceptions' = exceptions \cup {o}
  /\ UNCHANGED << libVars, suiteVars, pc, exitVars, cfgVars, sessVars, errVars, loopVars, countVars,
                  attemptVars, entries, stepVars, status, overrides, abandoned,
                  orphans >>

\* ------------------------------------------------- the end of the run
\* A check that reports every file but the reports.
outdated_all(fs) == {f \in fs : f \notin {ReportJson, ReportOut}}

\* A check that takes every .blf file for the baseline of some test.
outdated_images_only(fs) ==
  {f \in fs : /\ f \notin {ReportJson, ReportOut}
              /\ f.name \notin baseline_names
              /\ f.ext # "blf"}

\* The files the final check reports (lines 681-688) when readdir finds
\* fs: the reports and the files named after a baseline name are deleted
\* from the set.
outdated(fs) ==
  {f \in fs : f \notin {ReportJson, ReportOut} /\ f.name \notin baseline_names}

\* After the loop (lines 654-697): report.json is written and outdated
\* baselines fail the run, with a baselines root; then failures # 0
\* throws Exit(1).
Finalize ==
  /\ pc = "finalize"
  /\ out_stream' = IF out_stream = "open" THEN "ended" ELSE out_stream
  /\ IF argv.baselinesRoot
     THEN \E before \in SUBSET DiskFiles :
            /\ orphans' = outdated(before \cup {ReportOut, ReportJson})
            /\ Step([op |-> "readdir", files |-> before], {}, {ReportJson})
     ELSE /\ Quiet
          /\ UNCHANGED orphans
  /\ IF orphans' # {}
     THEN fail
     ELSE /\ thrown' = (failures # 0)
          /\ pc' = "discard"
          /\ UNCHANGED fatal
  /\ UNCHANGED << libVars, suiteVars, exitVars, cfgVars, failure, client, navigated, loopVars,
                  countVars, attemptVars, bufVars, status, overrides,
                  abandoned >>

\* The inner finally and the outer catch (lines 698-706):
\* Runtime.discardConsoleEntries() is awaited; an exception on its way
\* out, or one it throws itself, sets failure.
Discard ==
  /\ pc = "discard"
  /\ \E rejected \in BOOLEAN :
       /\ failure' = (thrown \/ rejected)
       /\ fatal' = (fatal \/ rejected)
       /\ Step([op |-> "discardConsoleEntries", rejected |-> rejected], {}, {})
  /\ thrown' = FALSE
  /\ pc' = "close"
  /\ UNCHANGED << libVars, suiteVars, exitVars, cfgVars, client, navigated, out_stream, loopVars,
                  countVars, attemptVars, bufVars, status, overrides, abandoned,
                  orphans >>

\* An outer finally that leaves the client as it is.
Close_left_open ==
  /\ pc = "close"
  /\ pc' = "exit"
  /\ Quiet
  /\ UNCHANGED << libVars, suiteVars, exitVars, cfgVars, failure, client, navigated,
                  out_stream, errVars, loopVars, countVars, attemptVars,
                  bufVars, status, overrides, abandoned, orphans >>

\* The outer finally (lines 707-711): client.close().
Close ==
  /\ pc = "close"
  /\ client' = IF client = "open" THEN "closed" ELSE client
  /\ pc' = "exit"
  /\ Quiet
  /\ UNCHANGED << libVars, suiteVars, exitVars, cfgVars, failure, navigated, out_stream, errVars,
                  loopVars, countVars, attemptVars, bufVars, status, overrides,
                  abandoned, orphans >>

\* An exit code that leaves the version check out.
run_exit_code_unchecked ==
  LET ok1 == IF ~argv.info THEN ~failure ELSE TRUE
  IN  IF ok1 THEN 0 ELSE 1

\* The code run gives to process.exit (lines 739-740).
run_exit_code ==
  LET ok1 == IF ~argv.info THEN ~failure ELSE TRUE
  IN  IF ok0 /\ ok1 THEN 0 ELSE 1

\* run: process.exit(ok0 && ok1 ? 0 : 1).
Exit ==
  /\ pc = "exit"
  /\ exit_code' = run_exit_code
  /\ pc' = "exited"
  /\ Quiet
  /\ UNCHANGED << libVars, suiteVars, interrupted, cfgVars, sessVars, errVars, loopVars, countVars,
                  attemptVars, bufVars, status, overrides, abandoned, orphans >>

\* A handler that exits with the code the run has so far.
sigint_exit_code_kept == exit_code

\* The code the SIGINT handler exits with (line 58).
sigint_exit_code == SigintCode

\* process.on("SIGINT") (lines 56-59): the handler is registered when the
\* module is loaded and exits at once.
Sigint ==
  /\ pc # "exited"
  /\ interrupted' = TRUE
  /\ exit_code' = sigint_exit_code
  /\ pc' = "exited"
  /\ UNCHANGED << libVars, suiteVars, cfgVars, sessVars, errVars, loopVars, countVars, attemptVars,
                  bufVars, stepVars, status, overrides, abandoned, orphans >>

Next ==
  \/ GetVersionFails
  \/ CheckVersion
  \/ Connect
  \/ ConnectFails
  \/ LoadException
  \/ NavigateDone
  \/ LoadDone
  \/ Discover
  \/ DiscoverFails
  \/ TestStart
  \/ RunDone
  \/ DatapointDone
  \/ GetStateDone
  \/ ScreenshotDone
  \/ ClearDone
  \/ ConsoleEvent
  \/ ExceptionEvent
  \/ Finalize
  \/ Discard
  \/ Close
  \/ Exit
  \/ Sigint

Spec == Init /\ [][Next]_vars

SpecRetry == InitRetry /\ [][Next]_vars

SpecPage == InitPage /\ [][Next]_vars

SpecImage == InitImage /\ [][Next]_vars

SpecReport == InitReport /\ [][Next]_vars

\* ------------------------------------------------ the suite functions
\* The variables of the run.
runVars ==
  << pc, exit_code, interrupted, argv, scope, checked, ok0, failure, thrown,
     client, navigated, out_stream, skips, idx, test, status, flagged, entries,
     exceptions, baseline_names, failures, skipped, attempt, runs, may_retry,
     output, result, overrides, abandoned, answer, appended, wrote, fatal,
     orphans, results >>

\* The functions that turn the answer of Tests.top_level into test_suite,
\* applied to a tree and a seed outside a run.
InitSuite ==
  /\ Start
  /\ Undisplayed
  /\ argv = [info |-> FALSE, retry |-> FALSE, baselinesRoot |-> FALSE,
             screenshot |-> "test"]
  /\ scope = [lingers |-> FALSE, dpr |-> FALSE, threshold |-> FALSE,
              retries |-> FALSE, tests |-> 0,
              report |-> FALSE]
  /\ top_level \in Trees
  /\ seed \in Seeds
  /\ all_tests = << >>
  /\ flat = FALSE
  /\ random = 0
  /\ order = << >>
  /\ previous = << >>
  /\ shuffles = 0
  /\ generator = NoGenerator
  /\ sent = [item |-> NoItem, si |-> << >>, ti |-> -1]

\* Line 299: all_tests = [...iter(top_level)].
Flatten ==
  /\ ~flat
  /\ all_tests' = iter(top_level, << >>)
  /\ flat' = TRUE
  /\ UNCHANGED << libVars, runVars, top_level, seed, random, order, previous, shuffles,
                  generator, sent >>

\* Lines 302-306 in one more run over the same suite with the same seed:
\* new Random(seed), then shuffle(test_suite, random).
Shuffle ==
  /\ flat
  /\ shuffles < MaxShuffles
  /\ LET r == shuffle(all_tests, Random_new(seed))
     IN  /\ order' = r.array
         /\ random' = r.seed
  /\ previous' = order
  /\ shuffles' = shuffles + 1
  /\ UNCHANGED << libVars, runVars, top_level, all_tests, flat, seed, generator,
                  sent >>

\* new Random(seed) (lines 19-23).
NewRandom ==
  /\ generator = NoGenerator
  /\ generator' = [seed |-> Random_new(seed), calls |-> 0, numerator |-> 0]
  /\ UNCHANGED << libVars, runVars, top_level, all_tests, flat, seed, random,
                  order, previous, shuffles, sent >>

\* random.float() (lines 30-32): integer(), then (seed - 1)/(MAX_INT32 - 1),
\* kept as its numerator.
Float ==
  /\ generator.calls >= 0
  /\ generator.calls < MaxDraws
  /\ LET x == integer(generator.seed)
     IN  generator' = [seed |-> x, calls |-> generator.calls + 1,
                       numerator |-> x - 1]
  /\ UNCHANGED << libVars, runVars, top_level, all_tests, flat, seed, random,
                  order, previous, shuffles, sent >>

\* Lines 459-480 for one item of test_suite, shuffled or not: the item is
\* taken apart (which throws on an undefined item) and run_test computes
\* seq for it.
SendSeq ==
  /\ flat
  /\ LET test_suite == IF shuffles >= 1 THEN order ELSE all_tests
     IN  \E i \in DOMAIN test_suite :
           /\ test_suite[i] # NoItem
           /\ LET seq == to_seq(top_level, test_suite[i].parents,
                                test_suite[i].test)
              IN  sent' = [item |-> test_suite[i], si |-> seq.si, ti |-> seq.ti]
  /\ UNCHANGED << libVars, runVars, top_level, all_tests, flat, seed, random,
                  order, previous, shuffles, generator >>

NextSuite ==
  \/ Flatten
  \/ Shuffle
  \/ NewRandom
  \/ Float
  \/ SendSeq

SpecSuite == InitSuite /\ [][NextSuite]_vars

\* ================================================ the plotting library
\* The runner and the suite functions at rest, nothing loaded or
\* displayed yet.
InitLib ==
  /\ Start
  /\ Undisplayed
  /\ Unloaded
  /\ argv = [info |-> FALSE, retry |-> FALSE, baselinesRoot |-> FALSE,
             screenshot |-> "test"]
  /\ scope = [lingers |-> FALSE, dpr |-> FALSE, threshold |-> FALSE,
              retries |-> FALSE, tests |-> 0,
              report |-> FALSE]

\* ------------------------------------------- documents and properties
\* A value is an object: two objects of the same content are equal by
\* value and distinct by identity.
Values == [ref : 1..MaxRef, content : 0..MaxContent]

\* The attributes of the document of issue #11803, one of a kind: what a
\* caller writes (a title, the bulk data of the source) and what the first
\* render pass derives, in this order (a bound of a data range, a plot
\* dimension).  The derived values are numbers, which have no identity.
Written == {"title", "data"}
Derived == <<"start", "inner_width">>
AttrNames == Written \cup {"start", "inner_width"}

\* Bulk array-valued data notify whatever the value.
always_dirty(a) == a = "data"

is_equal(old, v) == old # Undefined /\ Get(old).content = v.content

ModelChanged(a, v) == <<"ModelChanged", a, v.content>>
DocumentReady == <<"MessageSent", "DocumentReady", 0>>

\* A write that notifies unless the very same object is written again.
notifies_by_identity(a, old, v) == always_dirty(a) \/ old # Some(v)

\* set(attr, value) raises a change notification unless the value equals
\* the current one; always-dirty attributes notify regardless.
notifies(a, old, v) == always_dirty(a) \/ ~is_equal(old, v)

\* The events of writing the values vs to the attributes as, in order.
RECURSIVE set_all(_, _, _)
set_all(cur, as, vs) ==
  IF as = << >>
  THEN [attrs |-> cur, events |-> << >>]
  ELSE LET a == Head(as)
           v == vs[a]
           rest == set_all([cur EXCEPT ![a] = Some(v)], Tail(as), vs)
       IN  [attrs |-> rest.attrs,
            events |-> (IF notifies(a, cur[a], v)
                        THEN << ModelChanged(a, v) >> ELSE << >>)
                       \o rest.events]

\* A load that writes the snapshot like any caller.
load_events_as_written(snapshot) ==
  set_all([a \in AttrNames |-> Undefined], <<"data", "title">>, snapshot).events

\* from_snapshot populates the graph with change events suppressed.
load_events(snapshot) == << >>

\* Document.from_json(doc_json, events).
FromJson ==
  /\ phase = "empty"
  /\ \E snapshot \in [Written -> Values] :
       /\ attrs' = [a \in AttrNames |->
                      IF a \in Written THEN Some(snapshot[a]) ELSE Undefined]
       /\ events' = events \o load_events(snapshot)
       /\ call' = [op |-> "from_json", snapshot |-> snapshot]
  /\ phase' = "loaded"
  /\ UNCHANGED << runVars, suiteVars, plotVars, toolVars, panVars, scene >>

\* A caller writes an attribute of a model of the document.
SetAttr ==
  /\ phase # "empty"
  /\ Len(events) < MaxLog
  /\ \E a \in Written : \E v \in Values :
       /\ attrs' = [attrs EXCEPT ![a] = Some(v)]
       /\ events' = IF notifies(a, attrs[a], v)
                     THEN Append(events, ModelChanged(a, v)) ELSE events
       /\ call' = [op |-> "set", attr |-> a, value |-> v, old |-> attrs[a]]
  /\ UNCHANGED << runVars, suiteVars, plotVars, toolVars, panVars, scene, phase >>

\* A readiness signal after every render pass.
ready_events_every_pass(first) == << DocumentReady >>

\* The readiness signal fires once per initial load.
ready_events(first) == IF first THEN << DocumentReady >> ELSE << >>

\* A render pass of display(doc): the data ranges are computed, then the
\* layout; the first pass ends with the readiness signal.
RenderPass ==
  /\ phase # "empty"
  /\ phase = "ready" => Len(events) < MaxLog
  /\ \E computed \in [AttrNames \ Written -> {v \in Values : v.ref = 1}] :
       LET r == set_all(attrs, Derived, computed)
       IN  /\ attrs' = r.attrs
           /\ events' = events \o r.events \o ready_events(phase = "loaded")
           /\ call' = [op |-> "paint", first |-> phase = "loaded"]
  /\ phase' = "ready"
  /\ UNCHANGED << runVars, suiteVars, plotVars, toolVars, panVars, scene >>

NextDoc ==
  \/ FromJson
  \/ SetAttr
  \/ RenderPass

SpecDoc == InitLib /\ [][NextDoc]_vars

\* ------------------------------------------------ render invalidation
\* The renderer views of one plot, and the canvas layer of a level: the
\* overlay level has a layer of its own.
Views == 1..MaxViews
Levels == {"glyph", "overlay"}
layer_of(level) == IF level = "overlay" THEN "overlays" ELSE "primary"

\* A plot that repaints both layers whatever was invalidated.
painted_all(inv) == IF inv = {} THEN {} ELSE {"primary", "overlays"}

\* The layers a paint redraws: those of the invalidated views.
painted(inv) == {layer_of(levels[v]) : v \in inv}

\* A plot that redraws the invalidated views alone.
repainted_own(inv) == inv

\* The views whose render() a paint calls: all the views of a redrawn
\* layer.
repainted(inv) == {v \in Views : layer_of(levels[v]) \in painted(inv)}

\* display(plot) with renderers on any levels; the spies are set after it.
DisplayPlot ==
  /\ levels = << >>
  /\ levels' \in [Views -> Levels]
  /\ renders' = [v \in Views |-> 0]
  /\ call' = [op |-> "display"]
  /\ UNCHANGED << runVars, suiteVars, docVars, toolVars, panVars, scene, invalidated >>

\* An attribute of renderer k or of its glyph changes: its view requests
\* a paint.
Mutate ==
  /\ levels # << >>
  /\ \E k \in Views :
       /\ invalidated' = invalidated \cup {k}
       /\ call' = [op |-> "mutate", view |-> k]
  /\ UNCHANGED << runVars, suiteVars, docVars, toolVars, panVars, scene, levels, renders >>

\* The animation frame of the plot: one paint for all the requests.
Paint ==
  /\ invalidated # {}
  /\ \A v \in Views : renders[v] < MaxRenders
  /\ renders' = [v \in Views |->
                   IF v \in repainted(invalidated)
                   THEN renders[v] + 1 ELSE renders[v]]
  /\ call' = [op |-> "paint", views |-> invalidated]
  /\ invalidated' = {}
  /\ UNCHANGED << runVars, suiteVars, docVars, toolVars, panVars, scene, levels >>

NextPlot ==
  \/ DisplayPlot
  \/ Mutate
  \/ Paint

SpecPlot == InitLib /\ [][NextPlot]_vars

\* ------------------------------------------------------ pointer tools
\* The frame is the canvas of CanvasSize without a border of MinBorder.
\* scale.compute(v) of the linear scale of an axis: the screen coordinate
\* of the data coordinate v, for a range << start, end >>; the screen
\* coordinates of the y axis run downwards. Rounded down to a pixel.
compute(axis, range, v) ==
  LET target == IF axis = "x" THEN << MinBorder, CanvasSize - MinBorder >>
                              ELSE << CanvasSize - MinBorder, MinBorder >>
      num == (v - range[1]) * (target[2] - target[1])
      den == range[2] - range[1]
  IN  target[1] + (IF den < 0 THEN (0 - num) \div (0 - den) ELSE num \div den)

\* The plot of issue #7390: ranges [0, 2] on both axes and block i over
\* [i, i + 1] on both axes; the pointer is at one of Positions on either
\* screen axis.
Positions == {5, 30, 70, 95}

in_frame(p) ==
  /\ MinBorder <= p.x /\ p.x <= CanvasSize - MinBorder
  /\ MinBorder <= p.y /\ p.y <= CanvasSize - MinBorder

\* The elements of a set of indices in ascending order.
ascending(S) ==
  CHOOSE q \in [1..Cardinality(S) -> S] :
    \A i, j \in 1..Cardinality(S) : i < j => q[i] < q[j]

\* hit_test({type: "point", sx, sy}) of the blocks.
hit_blocks(p) ==
  ascending({i \in 0..1 :
    /\ compute("x", << 0, 2 >>, i) <= p.x
    /\ p.x <= compute("x", << 0, 2 >>, i + 1)
    /\ compute("y", << 0, 2 >>, i + 1) <= p.y
    /\ p.y <= compute("y", << 0, 2 >>, i)})

\* display(plot) of a plot with a hover tool and a tap tool; the renderer
\* has a hover glyph or none.
DisplayTools ==
  /\ hover_glyph = Undefined
  /\ hover_glyph' \in {Some(TRUE), Some(FALSE)}
  /\ call' = [op |-> "display"]
  /\ UNCHANGED << runVars, suiteVars, docVars, plotVars, panVars, scene, inspected, selected,
                  requests >>

\* A renderer view that asks for a render on every inspection.
render_requests_every_move(old, new) == IF Get(hover_glyph) THEN 1 ELSE 0

\* The render requests of an inspection: one when there is a hover glyph
\* and the inspected indices have changed.
render_requests(old, new) == IF Get(hover_glyph) /\ old # new THEN 1 ELSE 0

\* A mousemove over the canvas: the hover tool inspects the renderer.
Move ==
  /\ hover_glyph # Undefined
  /\ requests < MaxRequests
  /\ \E p \in [x : Positions, y : Positions] :
       /\ inspected' = hit_blocks(p)
       /\ requests' = requests + render_requests(inspected, hit_blocks(p))
       /\ call' = [op |-> "move", point |-> p, indices |-> hit_blocks(p)]
  /\ UNCHANGED << runVars, suiteVars, docVars, plotVars, panVars, scene, hover_glyph, selected >>

\* A tap tool that selects wherever the canvas is tapped.
tap_selection_anywhere(p) == hit_blocks(p)

\* The selection after a tap: what the tap hits inside the frame; a tap
\* outside the frame selects nothing anew.
tap_selection(p) == IF in_frame(p) THEN hit_blocks(p) ELSE selected

\* A tap on the canvas.
Tap ==
  /\ hover_glyph # Undefined
  /\ \E p \in [x : Positions, y : Positions] :
       /\ selected' = tap_selection(p)
       /\ call' = [op |-> "tap", point |-> p]
  /\ UNCHANGED << runVars, suiteVars, docVars, plotVars, panVars, scene, hover_glyph, inspected,
                  requests >>

NextTools ==
  \/ DisplayTools
  \/ Move
  \/ Tap

SpecTools == InitLib /\ [][NextTools]_vars

\* ------------------------------------------------------ linked ranges
\* A row of plots p0, p1, p2. Every plot has an x range and a y range;
\* links[k][axis] is the plot whose range plot k uses on that axis: its
\* own, or that of p0.
Plots == 0..2

\* Plot j uses a range plot k uses.
shares(j, k) == \E a \in {"x", "y"} : links[j][a] = links[k][a]

\* A range manager that notifies the panned plot alone.
ranges_updates_own(k) == << k >>

\* The plots that emit RangesUpdate after the ranges of plot k changed:
\* plot k, then the other plots that use one of its ranges, each once.
ranges_updates(k) ==
  << k >> \o ascending({j \in Plots : j # k /\ shares(j, k)})

\* display(new Row({children: [p0, p1, p2]})).
DisplayRow ==
  /\ links = << >>
  /\ links' \in {l \in [Plots -> [{"x", "y"} -> Plots]] :
                  \A k \in Plots : l[k]["x"] \in {0, k} /\ l[k]["y"] \in {0, k}}
  /\ call' = [op |-> "display"]
  /\ UNCHANGED << runVars, suiteVars, docVars, plotVars, toolVars, scene, updates >>

\* A pan gesture on plot k, and the paint after it.
Pan ==
  /\ links # << >>
  /\ call.op = "pan" => call.pans < MaxPans
  /\ \E k \in Plots :
       /\ updates' = updates \o ranges_updates(k)
       /\ call' = [op |-> "pan", plot |-> k, before |-> Len(updates),
                    pans |-> IF call.op = "pan" THEN call.pans + 1 ELSE 1]
  /\ UNCHANGED << runVars, suiteVars, docVars, plotVars, toolVars, scene, links >>

NextPan ==
  \/ DisplayRow
  \/ Pan

SpecPan == InitLib /\ [][NextPan]_vars

\* -------------------------------------------------------- hit testing
\* The rows of the rect glyph: centre, width and height in data space
\* (rows 0, 1 and 8 of issue #9752); row i is Rects[i + 1].
Rects ==
  << [x |-> -3, y |-> -3, width |-> 3, height |-> 3],
     [x |-> -2, y |-> -2, width |-> 2, height |-> 2],
     [x |-> 2, y |-> -2, width |-> 3, height |-> 3] >>

\* The screen extent of a field glyph as its two corners give it.
extent_as_given(a, b) == << a, b >>

\* The screen extent between two corners, the smaller coordinate first.
extent(a, b) == IF a <= b THEN << a, b >> ELSE << b, a >>

\* hit_test({type: "point", sx, sy}) of the image with x = -5, y = -5,
\* dw = 10, dh = 10.
hit_image(p) ==
  LET h == extent(compute("x", scene.x_range, -5),
                  compute("x", scene.x_range, -5 + 10))
      v == extent(compute("y", scene.y_range, -5),
                  compute("y", scene.y_range, -5 + 10))
  IN  IF /\ h[1] <= p.sx /\ p.sx <= h[2]
         /\ v[1] <= p.sy /\ p.sy <= v[2]
      THEN << 0 >>
      ELSE << >>

\* A rect view that tests every row as if its angle were 0.
direction_unrotated(angle) == << 1, 0, 1 >>

\* The angle of a row, in degrees, as a direction: the vector
\* << c, s >> of squared length n with cos = c / sqrt(n) and
\* sin = s / sqrt(n), for the angles that are multiples of 45.
direction(angle) ==
  LET a == angle % 360
  IN  CASE a = 0 -> << 1, 0, 1 >>
        [] a = 45 -> << 1, 1, 2 >>
        [] a = 90 -> << 0, 1, 1 >>
        [] a = 270 -> << 0, -1, 1 >>

\* hit_test({type: "point", sx, sy}) of the rects: the point is taken
\* into the frame of every row (turned back by the row's angle about the
\* row's centre) and tested against half the screen width and height.
hit_rects(p) ==
  ascending({i \in 0..(Len(Rects) - 1) :
    LET r == Rects[i + 1]
        u == direction(scene.angle[i + 1])
        csx == compute("x", scene.x_range, r.x)
        csy == compute("y", scene.y_range, r.y)
        sw == compute("x", scene.x_range, r.x + r.width) - csx
        sh == compute("y", scene.y_range, r.y + r.height) - csy
        dx == p.sx - csx
        dy == p.sy - csy
        along == u[1] * dx - u[2] * dy
        across == u[2] * dx + u[1] * dy
    IN  /\ 4 * along * along <= sw * sw * u[3]
        /\ 4 * across * across <= sh * sh * u[3]})

\* display(plot) of a plot with the image glyph, for either direction of
\* either range, or with the rect glyph, for every choice of angles.
DisplayGlyph ==
  /\ scene.glyph = "none"
  /\ \/ \E xr, yr \in {<< -15, 15 >>, << 15, -15 >>} :
          scene' = [glyph |-> "image", x_range |-> xr, y_range |-> yr]
     \/ \E angle \in [1..Len(Rects) -> {0, 45, 270, 405, 450}] :
          scene' = [glyph |-> "rect", x_range |-> << -5, 5 >>,
                    y_range |-> << -5, 5 >>, angle |-> angle]
  /\ call' = [op |-> "display"]
  /\ UNCHANGED << runVars, suiteVars, docVars, plotVars, toolVars, panVars >>

\* hit_test(x, y) of the tests: the data point goes through the scales
\* of the frame and the glyph view tests the screen point. The points
\* lie on a grid about the glyph.
HitTest ==
  /\ scene.glyph # "none"
  /\ \E x, y \in IF scene.glyph = "image" THEN {-10, -6, -4, 0, 4, 6, 10}
                                          ELSE {-4, -3, -2, -1, 2, 3, 4} :
       LET p == [sx |-> compute("x", scene.x_range, x),
                 sy |-> compute("y", scene.y_range, y)]
       IN  call' = [op |-> "hit_test", x |-> x, y |-> y,
                    indices |-> IF scene.glyph = "image" THEN hit_image(p)
                                                       ELSE hit_rects(p)]
  /\ UNCHANGED << runVars, suiteVars, docVars, plotVars, toolVars, panVars,
                  scene >>

NextHit ==
  \/ DisplayGlyph
  \/ HitTest

SpecHit == InitLib /\ [][NextHit]_vars

\* ======================================================== properties
\* The run ended by process.exit in run or main, not by the SIGINT handler.
Completed == pc = "exited" /\ ~interrupted

\* C1: a completed run exits with 0 exactly when the version check
\* passed, nothing fatal happened, no test ended with its failure or
\* timeout flag set and no outdated baseline was found; every other
\* completed run exits with 1.
C1_ExitCode ==
  Completed =>
    /\ exit_code \in {0, 1}
    /\ exit_code = 0 <=> (ok0 /\ ~fatal /\ ~flagged /\ orphans = {})

\* A run over all tests of a suite, with a baselines root, that exits with 0.
C1_Witness ==
  /\ Completed
  /\ exit_code = 0
  /\ argv.baselinesRoot
  /\ idx = MaxTests

\* Two tests the loop has reached encode to one baseline name: every test
\* reached adds its name to baseline_names.
Collision == Cardinality(baseline_names) < idx

\* C2: a completed run in which two tests, skipped or not, encode to the
\* same baseline name exits with 1.
C2_DuplicateFails == (Completed /\ Collision) => exit_code = 1

\* A run with a supported browser and nothing fatal, whose only failing
\* test is the one with the duplicated name, exits with 1.
C2_Witness ==
  /\ Completed
  /\ Collision
  /\ ok0
  /\ ~fatal
  /\ failures = 1
  /\ exit_code = 1

\* Tests.get_state answered with a state that is not the early state of
\* the Tests.run result.
StateDiffers ==
  /\ answer.op = "get_state"
  /\ answer.out = "value"
  /\ answer.later # Undefined
  /\ answer.later # answer.early

\* C3: with a baselines root, when the state of the Tests.run result and
\* the state Tests.get_state returns differ, the test is marked failed
\* and "inconsistent state" is appended to its errors, whatever the
\* stored baseline is.
C3_InconsistentState ==
  StateDiffers => status.failure /\ E("inconsistent state") \in appended

\* The two states differ and the test has just been marked.
C3_Witness ==
  /\ StateDiffers
  /\ argv.baselinesRoot
  /\ status.failure
  /\ E("inconsistent state") \in appended
  /\ pc \in {"screenshot", "clear"}

\* The retry budget of the test in progress: its declared retries, or 10
\* when only --retry is given, or none.
Budget ==
  IF test.retries # Undefined THEN Get(test.retries)
  ELSE IF argv.retry THEN 10 ELSE 0

\* C4: a test is evaluated at most 1 + B times, B its retry budget, and
\* no evaluation follows an attempt that is not retry-eligible.
C4_RetryBound ==
  /\ [](runs <= 1 + Budget)
  /\ [][(pc = "clear" /\ ~may_retry) => pc' # "run"]_vars

\* With --retry alone, a test is evaluated 11 times.
C4_Witness ==
  /\ argv.retry
  /\ test.retries = Undefined
  /\ runs = 11
  /\ pc = "clear"

\* The last answer is a stored baseline that differs from the state of the
\* page, or a reference image that differs from the captured one.
Mismatch ==
  \/ /\ answer.op = "get_state"
     /\ answer.later # Undefined
     /\ answer.later = answer.early
     /\ answer.stored # Undefined
     /\ answer.stored # answer.later
  \/ /\ answer.op = "screenshot"
     /\ answer.existing = "differ"
     /\ answer.diff_result # Undefined

C6_EvaluationErrorGoesOn ==
  /\ []((pc = "clear" /\ output = "failure") => status.failure)
  /\ []((pc = "clear" /\ output = "timeout") => status.timeout)
  /\ [][(pc = "clear" /\ output \in {"failure", "timeout"} /\ ~interrupted')
          => pc' = (IF idx = Len(skips) THEN "finalize" ELSE "loop")]_vars

\* The evaluation of a test that is not the last one timed out and the
\* test has been marked.
C6_Witness ==
  /\ pc = "clear"
  /\ output = "timeout"
  /\ status.timeout
  /\ idx < Len(skips)

\* C7: no console error and no exception appended to the errors of a test
\* comes from the evaluation of an earlier test.
C7_OwnEventsOnly ==
  /\ <<"console", "earlier">> \notin appended
  /\ <<"exception", "earlier">> \notin appended

\* The awaits of run_test.
TestAwaits == {"run", "datapoint", "get_state", "screenshot", "clear"}

\* The operations against the page that have been issued and not yet
\* answered: the one the runner awaits, the overrides it did not await,
\* and the evaluations it gave up on.
in_flight ==
  (IF pc \in TestAwaits THEN 1 ELSE 0)
    + Cardinality(overrides) + Cardinality(abandoned)

\* C8: while a test is processed at most one operation against the page
\* is in flight.
C8_OneInFlight == pc \in TestAwaits => in_flight <= 1

\* C9: once the version check has failed no session is opened, no page
\* is navigated, no test is evaluated, and a completed run exits with 1.
C9_NothingRun ==
  (checked /\ ~ok0) =>
    /\ client = "none"
    /\ ~navigated
    /\ runs = 0
    /\ Completed => exit_code = 1

\* C10: SIGINT can arrive at every stage before the exit, and once the
\* handler has run the process has exited with 130.
C10_SigintExit ==
  /\ pc # "exited" => ENABLED Sigint
  /\ interrupted => (pc = "exited" /\ exit_code = 130)

\* The run was interrupted while a test was evaluated.
C10_Witness ==
  /\ interrupted
  /\ runs = 1
  /\ exit_code = 130

\* C11: once the SIGINT handler has run, a report stream that was opened
\* has been ended and a connection that was opened has been closed.
C11_SigintCleansUp ==
  (interrupted /\ out_stream # "none") =>
    (out_stream # "open" /\ client # "open")

\* Tests.top_level has answered with a suite.
Discovered == answer.op = "top_level" /\ answer.tests >= 0

\* C12: when the suite is empty or every test is skipped after filtering,
\* fail() is called before any test is evaluated, and the run, once
\* completed, exits with 1.
C12_NothingToTest ==
  /\ (Discovered /\ (answer.tests = 0 \/ \A i \in DOMAIN skips : skips[i])) =>
       (fatal /\ thrown /\ runs = 0 /\ (pc = "discard" \/ interrupted))
  /\ (Len(skips) > 0 /\ \A i \in DOMAIN skips : skips[i]) =>
       (idx = 0 /\ runs = 0 /\ fatal /\ (Completed => exit_code = 1))
  /\ (Completed /\ fatal) => exit_code = 1

\* A run with a supported browser over a suite of MaxTests tests, all
\* skipped after filtering, has exited with 1.
C12_Witness ==
  /\ Completed
  /\ ok0
  /\ Len(skips) = MaxTests
  /\ \A i \in DOMAIN skips : skips[i]
  /\ exit_code = 1

\* C13: filtering leaves the number of tests alone and skips exactly the
\* tests that were declared skipped or that a given filter does not
\* match; a skipped test is reached by the loop, has its baseline name
\* checked and counted as skipped, and is never evaluated.
C13_FilterSkips ==
  /\ [](Discovered =>
         /\ Len(skips) = answer.tests
         /\ \A i \in DOMAIN skips :
              skips[i] <=> \/ answer.suite.declared[i]
                           \/ answer.suite.k /\ ~answer.suite.inK[i]
                           \/ answer.suite.grep /\ ~answer.suite.inGrep[i])
  /\ [][(pc = "loop" /\ ~interrupted' /\ skips[idx + 1]) =>
          /\ idx' = idx + 1
          /\ skipped' = skipped + 1
          /\ runs' = 0
          /\ pc' # "run"
          /\ \/ Cardinality(baseline_names') = Cardinality(baseline_names) + 1
             \/ failures' = failures + 1]_vars

\* The first of two tests is skipped by -k alone and the loop starts.
C13_Witness ==
  /\ Discovered
  /\ pc = "loop"
  /\ answer.tests = MaxTests
  /\ answer.suite.k
  /\ ~answer.suite.declared[1]
  /\ ~answer.suite.inK[1]
  /\ skips[1]

Range(q) == {q[i] : i \in DOMAIN q}

\* The place of x in a sequence that holds it once.
IndexOf(q, x) == CHOOSE i \in DOMAIN q : q[i] = x

\* The number of tests of a suite tree.
RECURSIVE tests_in(_)
tests_in(suite) ==
  LET RECURSIVE below(_)
      below(k) == IF k > Len(suite.suites) THEN 0
                  ELSE tests_in(suite.suites[k]) + below(k + 1)
  IN  Len(suite.tests) + below(1)

\* The parents of an item are a chain of suites from top_level down to
\* the suite that declares its test.
ChainOf(item) ==
  LET p == item.parents
  IN  IF Len(p) = 0 THEN item.test \in Range(top_level.tests)
      ELSE /\ p[1] \in Range(top_level.suites)
           /\ \A k \in 1..(Len(p) - 1) : p[k + 1] \in Range(p[k].suites)
           /\ item.test \in Range(p[Len(p)].tests)

\* The length of the chain two items share.
Shared(a, b) ==
  CHOOSE c \in 0..Len(a.parents) :
    /\ c <= Len(b.parents)
    /\ SubSeq(a.parents, 1, c) = SubSeq(b.parents, 1, c)
    /\ \/ c = Len(a.parents)
       \/ c = Len(b.parents)
       \/ a.parents[c + 1] # b.parents[c + 1]

\* Item a is declared before item b: in the suite both tests belong to,
\* or through the order of the two suites where their chains part.
DeclaredBefore(a, b) ==
  LET c == Shared(a, b)
      within == IF c = 0 THEN top_level ELSE a.parents[c]
  IN  IF Len(a.parents) = c /\ Len(b.parents) = c
      THEN IndexOf(within.tests, a.test) < IndexOf(within.tests, b.test)
      ELSE IF Len(a.parents) > c /\ Len(b.parents) > c
           THEN IndexOf(within.suites, a.parents[c + 1])
                  < IndexOf(within.suites, b.parents[c + 1])
           ELSE TRUE

\* C15: all_tests holds every test of the tree once, each with the chain
\* of suites around it, tests of one suite and suites of one suite in the
\* order of their declaration.
C15_FlattenExactlyOnce ==
  flat =>
    /\ Len(all_tests) = tests_in(top_level)
    /\ \A i, j \in DOMAIN all_tests :
         i # j => all_tests[i].test # all_tests[j].test
    /\ \A i \in DOMAIN all_tests : ChainOf(all_tests[i])
    /\ \A i, j \in DOMAIN all_tests :
         i < j => DeclaredBefore(all_tests[i], all_tests[j])

\* A tree with a suite inside a suite has been flattened.
C15_Witness ==
  /\ flat
  /\ Len(all_tests) = 3
  /\ \E i \in DOMAIN all_tests : Len(all_tests[i].parents) = 2

\* The two states of the test agree and load_baseline found no baseline.
MissingBaseline ==
  /\ answer.op = "get_state"
  /\ answer.out = "value"
  /\ answer.later # Undefined
  /\ answer.later = answer.early
  /\ answer.stored = Undefined

\* C16: when no baseline is stored the test is marked failed with
\* "missing baseline", the attempt does not become retry-eligible by it,
\* nothing is thrown and run_test goes on to the screenshot or to
\* Tests.clear, after which the loop goes on.
C16_MissingBaseline ==
  /\ [](MissingBaseline =>
         /\ status.failure
         /\ E("missing baseline") \in appended
         /\ ~may_retry
         /\ ~thrown
         /\ pc \in {"screenshot", "clear", "exited"})
  /\ [][(pc = "clear" /\ MissingBaseline /\ ~interrupted')
          => pc' = (IF idx = Len(skips) THEN "finalize" ELSE "loop")]_vars

\* A test that declares retries and is not the last one has no stored
\* baseline and no bbox.
C16_Witness ==
  /\ MissingBaseline
  /\ test.retries # Undefined
  /\ Get(test.retries) > 0
  /\ status.failure
  /\ ~may_retry
  /\ pc = "clear"
  /\ idx < Len(skips)

\* The captured image differs from the reference and diff_image has
\* counted the pixels.
ImagesDiffer ==
  /\ answer.op = "screenshot"
  /\ answer.existing = "differ"
  /\ answer.diff_result # Undefined

\* The threshold of the test in progress, 0 when it declares none.
Threshold == IF test.threshold = Undefined THEN 0 ELSE Get(test.threshold)

\* The pixel count of the last image comparison is above the threshold.
AboveThreshold == ImagesDiffer /\ Get(answer.diff_result) > Threshold

\* The pixel count of the last image comparison is within the threshold.
Tolerated == ImagesDiffer /\ Get(answer.diff_result) <= Threshold

\* C17: in mode "test" a difference above the threshold of the test marks
\* it failed with "images differ"; a difference at or below the threshold
\* leaves the failure flag as it was and appends nothing.
C17_ImageThreshold ==
  /\ [](AboveThreshold =>
          (status.failure /\ E("images differ") \in appended))
  /\ [](Tolerated => appended = {})
  /\ [][(pc = "screenshot" /\ Tolerated')
          => status'.failure = status.failure]_vars

\* A difference of one pixel under a declared threshold of one has left
\* the test unmarked.
C17_Witness ==
  /\ Tolerated
  /\ test.threshold # Undefined
  /\ Get(answer.diff_result) = 1
  /\ Threshold = 1
  /\ ~status.failure
  /\ pc = "clear"

\* C18: the screenshot comparison makes the attempt retry-eligible
\* exactly when the pixel count is above the threshold of the test.
C18_RetryOnlyAboveThreshold ==
  [][(pc = "screenshot" /\ pc' = "clear")
       => (may_retry' <=> (may_retry \/ AboveThreshold'))]_vars

\* readdir has listed the platform directory at the end of the loop.
Listed == answer.op = "readdir"

\* The directory holds the .blf file of every test of a run whose tests
\* have names of their own and one of which was skipped: the file of the
\* skipped test was neither read nor written by the run.
UntouchedLeft ==
  /\ Listed
  /\ \E i \in DOMAIN skips : skips[i]
  /\ Cardinality(baseline_names) = Len(skips)
  /\ \A n \in baseline_names : [name |-> n, ext |-> "blf"] \in answer.files

\* The directory holds a file that is no report and is not named after
\* the baseline name of a test of the run, skipped or not.
OutdatedLeft ==
  /\ Listed
  /\ \E f \in answer.files : f.name \notin baseline_names

\* C19 as stated: a file the run has not touched throws Exit(1) at the
\* end of the loop, which makes the run exit with 1.
C19_UntouchedFails == UntouchedLeft => thrown

\* C19: with a baselines root, a file of the platform directory other
\* than the reports and the .blf and .png files named after a test of the
\* run, skipped or not, fails the run with exit code 1, even when no test
\* failed.
C19_OutdatedFails ==
  /\ OutdatedLeft => (thrown /\ orphans # {})
  /\ (Listed /\ ~OutdatedLeft) => (orphans = {} /\ thrown = (failures # 0))
  /\ (Completed /\ orphans # {}) => exit_code = 1

\* A run without a failed test has exited with 1 over an outdated file.
C19_Witness ==
  /\ Completed
  /\ orphans # {}
  /\ failures = 0
  /\ skipped < Len(skips)
  /\ exit_code = 1

\* C20: an exception the page throws between the start of the navigation
\* and the answer of is_ready() is a fatal load failure: the run goes to
\* its end without asking for the tests.
C20_LoadExceptionFatal ==
  ("load" \in exceptions /\ pc \notin {"navigate", "load"} /\ ~interrupted)
    => /\ fatal
       /\ pc \in {"discard", "close", "exit", "exited"}
       /\ pc = "exited" => exit_code = 1

\* report.json has been written with the results of the whole suite, right
\* before the directory was listed.
Reported == scope.report /\ Listed

\* The tests whose failure flag is set in report.json.
FlaggedInReport == {i \in DOMAIN results : results[i]}

\* C21: report.json holds a result for every test, and the failure flag is
\* set in as many of them as the run has counted failing tests, which are
\* the tests that ended failed or timed out.
C21_ReportFlagsFailures ==
  Reported =>
    /\ Len(results) = Len(skips)
    /\ Cardinality(FlaggedInReport) = failures

\* The positions of the readiness signal in the log of the document.
Readies == {i \in DOMAIN events : events[i][1] = "MessageSent"}

\* C22: loading a snapshot emits no event; the first display appends the
\* changes of the derived range and size attributes, the range first, and
\* then the one DocumentReady of the document, as the last event.
C22_LoadThenReady ==
  /\ [](call.op = "from_json" => events = << >>)
  /\ [](Cardinality(Readies) <= 1)
  /\ [][(phase = "loaded" /\ phase' = "ready") =>
          LET old == Len(events)
              new == Len(events')
          IN  /\ new > old
              /\ SubSeq(events', 1, old) = events
              /\ Readies' = {new}
              /\ \A i \in (old + 1)..(new - 1) :
                    /\ events'[i][1] = "ModelChanged"
                    /\ events'[i][2] \in {"start", "inner_width"}
                    /\ \A j \in (i + 1)..(new - 1) :
                          ~(events'[i][2] = "inner_width" /\ events'[j][2] = "start")]_vars

\* The first display of a loaded document has changed the range and the
\* size and then signalled readiness.
C22_Witness ==
  /\ call.op = "paint"
  /\ call.first
  /\ Len(events) = 3
  /\ events[1][2] = "start"
  /\ events[2][2] = "inner_width"
  /\ events[3] = DocumentReady

\* C23: a write of a value equal by content to the current one appends no
\* change event, unless the attribute is the always-dirty data, whose
\* every write appends one; any other write appends one.
C23_EqualWriteIsSilent ==
  [][call'.op = "set" =>
       LET c == call'
       IN  events' =
             IF \/ c.attr = "data"
                \/ c.old = Undefined
                \/ Get(c.old).content # c.value.content
             THEN Append(events, <<"ModelChanged", c.attr, c.value.content>>)
             ELSE events]_vars

\* Another object of the same content was written to the title of a
\* loaded document, and the log is still empty.
C23_Witness ==
  /\ call.op = "set"
  /\ call.attr = "title"
  /\ call.old # Undefined
  /\ Get(call.old).content = call.value.content
  /\ Get(call.old).ref # call.value.ref
  /\ events = << >>

\* The views of the layer of view k, and the other views.
SameLayer(k) == {v \in Views : layer_of(levels[v]) = layer_of(levels[k])}

\* C24 as stated: a paint after a change of view k alone calls render()
\* of k once and of no other view.
C24_OnlyChangedViewRepaints ==
  [][\A k \in Views :
       (call'.op = "paint" /\ call'.views = {k}) =>
          /\ renders'[k] = renders[k] + 1
          /\ \A v \in Views \ {k} : renders'[v] = renders[v]]_vars

\* C24: a paint after a change of view k alone calls render() once for k
\* and for every view of the canvas layer of k, and for no view of the
\* other layer.
C24_OnlyChangedLayerRepaints ==
  [][\A k \in Views :
       (call'.op = "paint" /\ call'.views = {k}) =>
          /\ \A v \in SameLayer(k) : renders'[v] = renders[v] + 1
          /\ \A v \in Views \ SameLayer(k) : renders'[v] = renders[v]]_vars

\* A paint after a change of view 2 alone has brought view 2 and view 3,
\* which shares its layer, to two calls each, and view 1 of the other
\* layer to none.
C24_Witness ==
  /\ call.op = "paint"
  /\ call.views = {2}
  /\ levels[1] = "glyph"
  /\ levels[2] = "overlay"
  /\ levels[3] = "overlay"
  /\ renders = <<0, 2, 2>>

\* C25: a paint after changes of overlay renderers alone calls render()
\* once for every view of the overlay level, whichever of them changed,
\* and for no view of the glyph level.
C25_OverlayRepaintsOverlay ==
  [][(/\ call'.op = "paint"
      /\ \A k \in call'.views : levels[k] = "overlay") =>
        \A v \in Views :
          renders'[v] = IF levels[v] = "overlay"
                        THEN renders[v] + 1 ELSE renders[v]]_vars

\* The plot of issue #10784 after r1 changed twice and r2 once, each
\* change painted by itself.
C25_Witness ==
  /\ levels = <<"glyph", "overlay", "overlay">>
  /\ call.op = "paint"
  /\ call.views = {3}
  /\ renders = <<0, 3, 3>>

\* C26: with a hover glyph, a pointer move that resolves to the indices of
\* the move before it requests no render, and one that resolves to other
\* indices requests exactly one; so does the first move, against the
\* empty inspection the plot starts with.
C26_HoverRendersOnChange ==
  /\ [][(/\ hover_glyph = Some(TRUE)
          /\ call.op = "move"
          /\ call'.op = "move") =>
            requests' = requests +
              (IF call'.indices = call.indices THEN 0 ELSE 1)]_vars
  /\ [][(/\ hover_glyph = Some(TRUE)
          /\ call.op = "display"
          /\ call'.op = "move") =>
            requests' = (IF call'.indices = << >> THEN 0 ELSE 1)]_vars

\* The pointer has moved onto block 1, stayed on it, and left it: two
\* requests, none for the moves that stayed.
C26_Witness ==
  /\ hover_glyph = Some(TRUE)
  /\ call.op = "move"
  /\ call.indices = << >>
  /\ inspected = << >>
  /\ requests = 2

\* C27: a tap on block 0 or block 1 selects exactly that block, a tap on
\* an empty point of the frame selects nothing, and a tap outside the
\* frame leaves the selection as it was (the taps of issue #7390).
C27_TapSelects ==
  [][call'.op = "tap" =>
       LET p == call'.point
       IN  selected' =
             IF p.x \in {5, 95} \/ p.y \in {5, 95} THEN selected
             ELSE IF p.x = 30 /\ p.y = 70 THEN << 0 >>
             ELSE IF p.x = 70 /\ p.y = 30 THEN << 1 >>
             ELSE << >>]_vars

\* Block 1 is still selected after a tap off the frame.
C27_Witness ==
  /\ call.op = "tap"
  /\ call.point = [x |-> 5, y |-> 5]
  /\ selected = << 1 >>

\* The events the last pan gesture added.
Emitted == SubSeq(updates, call.before + 1, Len(updates))

\* C28: the events of one pan gesture on plot k are: first one of origin
\* k, then one each for the other plots that use the x range or the y
\* range of k, in the order of the plots; no plot emits twice, and a plot
\* that shares no range with k emits nothing.
C28_OneUpdatePerLinkedPlot ==
  call.op = "pan" =>
    /\ Emitted[1] = call.plot
    /\ \A i, j \in 1..Len(Emitted) : i < j => Emitted[i] # Emitted[j]
    /\ \A i, j \in 2..Len(Emitted) : i < j => Emitted[i] < Emitted[j]
    /\ \A j \in Plots :
         (\E i \in 1..Len(Emitted) : Emitted[i] = j) <=>
           \/ j = call.plot
           \/ links[j]["x"] = links[call.plot]["x"]
           \/ links[j]["y"] = links[call.plot]["y"]

\* The row of issue #12778 (p1 uses both ranges of p0, p2 its x range)
\* after one pan on p0: three events, of p0, p1 and p2.
C28_Witness ==
  /\ call.op = "pan"
  /\ call.plot = 0
  /\ links[1] = [x |-> 0, y |-> 0]
  /\ links[2] = [x |-> 0, y |-> 2]
  /\ updates = << 0, 1, 2 >>

\* The distance of two coordinates.
Apart(a, b) == IF a <= b THEN b - a ELSE a - b

\* Row i of the rects covers the data point (x, y): with an angle that is
\* a multiple of 90 the square lies along the axes; with an odd multiple
\* of 45 it stands on a corner.
Covers(i, x, y) ==
  LET r == Rects[i + 1]
      dx == Apart(x, r.x)
      dy == Apart(y, r.y)
  IN  IF scene.angle[i + 1] \in {45, 405}
      THEN 2 * (dx + dy) * (dx + dy) <= r.width * r.width
      ELSE 2 * dx <= r.width /\ 2 * dy <= r.height

\* C29: a point hit test of the rotated rects returns the indices of
\* exactly the rects that cover the point, in ascending order; so the
\* centre of a rect hits that rect, and a point no rect covers gives the
\* empty sequence.
C29_RotatedRectHits ==
  (call.op = "hit_test" /\ scene.glyph = "rect") =>
    LET r == call.indices
    IN  /\ \A i, j \in 1..Len(r) : i < j => r[i] < r[j]
        /\ \A k \in 0..(Len(Rects) - 1) :
             /\ (\E i \in 1..Len(r) : r[i] = k) <=> Covers(k, call.x, call.y)
             /\ (call.x = Rects[k + 1].x /\ call.y = Rects[k + 1].y) =>
                  \E i \in 1..Len(r) : r[i] = k
        /\ (\A k \in 0..(Len(Rects) - 1) : ~Covers(k, call.x, call.y)) =>
             r = << >>

\* Rect 0 at 45 degrees and rect 1 at 405 degrees both cover the centre
\* of rect 1.
C29_Witness ==
  /\ call.op = "hit_test"
  /\ scene.glyph = "rect"
  /\ scene.angle = << 45, 405, 450 >>
  /\ call.x = -2
  /\ call.y = -2
  /\ call.indices = << 0, 1 >>

\* C30: a point hit test of the image over [-5, 5] on both axes hits
\* index 0 when the data point lies in that extent and nothing when it
\* does not, for either direction of the x range and of the y range.
C30_ImageHitAnyDirection ==
  (call.op = "hit_test" /\ scene.glyph = "image") =>
    call.indices = IF /\ -5 <= call.x /\ call.x <= 5
                      /\ -5 <= call.y /\ call.y <= 5
                   THEN << 0 >>
                   ELSE << >>

\* The centre of the image is hit with both ranges reversed.
C30_Witness ==
  /\ call.op = "hit_test"
  /\ scene.glyph = "image"
  /\ scene.x_range = << 15, -15 >>
  /\ scene.y_range = << 15, -15 >>
  /\ call.x = 0
  /\ call.y = 0
  /\ call.indices = << 0 >>

\* C31: while a test is in progress no step clears its failure flag or
\* its timeout flag, over all its attempts; and when the test with a flag
\* set is finished, it is counted in failures.
C31_FlagsStick ==
  [][(pc \in TestAwaits /\ (status.failure \/ status.timeout)) =>
       \/ /\ pc' \in TestAwaits
          /\ idx' = idx
          /\ status.failure => status'.failure
          /\ status.timeout => status'.timeout
       \/ /\ pc' \in {"loop", "finalize"}
          /\ failures' = failures + 1
       \/ pc' \in {"discard", "exited"}]_vars

\* A retry whose state agrees with the stored baseline, after an attempt
\* that set the failure flag: the flag is still set.
C31_Witness ==
  /\ pc = "clear"
  /\ attempt >= 1
  /\ ~may_retry
  /\ appended = {}
  /\ answer.op = "get_state"
  /\ answer.later # Undefined
  /\ answer.later = answer.stored
  /\ status.failure

\* C32: the seed field of a Random is in 1..MAX_INT32 - 1 after the
\* constructor and after every integer(), and every float() is in [0, 1):
\* its numerator over MAX_INT32 - 1 is in 0..MAX_INT32 - 2.
C32_RandomStateInRange ==
  generator.calls >= 0 =>
    /\ generator.seed \in 1..(MAX_INT32 - 1)
    /\ generator.calls >= 1 =>
         /\ 0 <= generator.numerator
         /\ generator.numerator < MAX_INT32 - 1

\* C33: after shuffle the sequence is a permutation of all_tests: as long
\* as before, and every item of all_tests is at exactly one index.
C33_ShufflePermutes ==
  shuffles >= 1 =>
    /\ Len(order) = Len(all_tests)
    /\ \A i \in DOMAIN all_tests :
         Cardinality({j \in DOMAIN order : order[j] = all_tests[i]}) = 1

\* The test a page finds for the identifier << si, ti >>: it walks from
\* suite to the suites the indices of si name, then takes the test ti of
\* the suite it arrives at; Undefined when an index names nothing.
RECURSIVE Resolve(_, _, _)
Resolve(suite, si, ti) ==
  IF si = << >>
  THEN IF ti + 1 \in DOMAIN suite.tests THEN Some(suite.tests[ti + 1])
       ELSE Undefined
  ELSE IF Head(si) + 1 \in DOMAIN suite.suites
       THEN Resolve(suite.suites[Head(si) + 1], Tail(si), ti)
       ELSE Undefined

\* C34: the identifier sent for an item of test_suite, shuffled or not,
\* resolves from top_level to the test of that item.
C34_SeqResolves ==
  sent.item # NoItem =>
    Resolve(top_level, sent.si, sent.ti) = Some(sent.item.test)

\* The identifier [[0, 0], 0] was sent for the test inside two suites,
\* after a shuffle.
C34_Witness ==
  /\ shuffles >= 1
  /\ sent.item # NoItem
  /\ sent.si = << 0, 0 >>
  /\ sent.ti = 0
  /\ order # all_tests

\* C35: the state baseline file is written by the step that receives the
\* answer of Tests.get_state, which is reached only with a baselines root
\* and a value of Tests.run that carries a state, and only when the
\* answer is a value with a state equal to the early one; no other step
\* of an attempt writes it.
C35_BaselineWritten ==
  /\ answer.op = "get_state" =>
       /\ argv.baselinesRoot
       /\ output = "value"
       /\ answer.early # Undefined
       /\ ("blf" \in wrote) <=>
            /\ answer.out = "value"
            /\ answer.later # Undefined
            /\ answer.later = answer.early
  /\ answer.op \in {"run", "getMetrics", "screenshot", "clear"} =>
       "blf" \notin wrote
  /\ answer.op = "none" => wrote = {}

\* The file was overwritten with a state that differs from the stored
\* baseline.
C35_Witness ==
  /\ answer.op = "get_state"
  /\ wrote = {"blf"}
  /\ answer.stored # Undefined
  /\ answer.stored # answer.later

\* C36: every test the loop reaches, skipped or not, leaves its baseline
\* name in baseline_names: it adds a new name or is marked as the
\* duplicate of one; and the final check reports exactly the files of the
\* directory, other than the reports, that are named after none of them.
C36_NamedFilesKept ==
  /\ [][idx' = idx + 1 =>
          \/ Cardinality(baseline_names') = Cardinality(baseline_names) + 1
          \/ /\ baseline_names' = baseline_names
             /\ E("duplicated description") \in appended']_vars
  /\ [](Listed =>
          orphans = {f \in answer.files : f.name \notin baseline_names})

\* The directory holds the files of all tests of a run that skipped one
\* of them, and nothing is reported.
C36_Witness ==
  /\ UntouchedLeft
  /\ orphans = {}
  /\ ~thrown
  /\ skipped = 1
  /\ Len(skips) = 2

\* The texts a step appends name an exception of the page, a Failure or
\* a Timeout of an evaluation, a result error or a duplicate name.
Caused(texts) ==
  \E t \in texts :
    \/ t[1] = "exception"
    \/ t \in {E("failure text"), E("timeout"), E("result.error"),
              E("duplicated description")}

\* C37: without a baselines root no step writes a file, the report
\* stream is never opened, Performance.getMetrics, Tests.get_state and
\* Page.captureScreenshot are never awaited and the directory is never
\* listed; and a step that sets the failure or the timeout flag of a
\* test, or counts a test without a flag as failed, appends the text of
\* an exception, of a Failure or Timeout of an evaluation, of a result
\* error or of a duplicate name.
C37_NoBaselinesNoFiles ==
  /\ [](~argv.baselinesRoot =>
          /\ wrote = {}
          /\ out_stream = "none"
          /\ orphans = {}
          /\ pc \notin {"datapoint", "get_state", "screenshot"}
          /\ answer.op \notin {"getMetrics", "get_state", "screenshot",
                                "readdir"})
  /\ [][(/\ ~argv.baselinesRoot
          /\ \/ status'.failure /\ ~status.failure
             \/ status'.timeout /\ ~status.timeout
             \/ /\ failures' > failures
                /\ ~status.failure
                /\ ~status.timeout) => Caused(appended')]_vars

\* Without a baselines root a value of Tests.run with an error in it has
\* failed the test, and the runner is at Tests.clear.
C37_Witness ==
  /\ ~argv.baselinesRoot
  /\ pc = "clear"
  /\ answer.op = "run"
  /\ answer.out = "value"
  /\ status.failure
  /\ appended = {E("result.error")}

\* The step in which run_test reads the buffers (lines 492-502): the one
\* that follows Tests.run without a baselines root, Performance.getMetrics
\* with one.
Collected ==
  /\ pc \in {"run", "datapoint"}
  /\ pc' \in {"get_state", "screenshot", "clear"}

\* C38: when run_test reads the buffers, the text of every console error
\* of the buffer is appended to the errors of the test and so is the text
\* of every exception; an exception in the buffer sets the failure flag;
\* and the failure flag is not set in that step unless the buffer holds
\* an exception or the output is a Failure, carries result.error or has
\* no state: a console error alone leaves it as it was.
C38_ConsoleErrorsDoNotFail ==
  [][Collected =>
       /\ \A e \in entries :
            e.level = "error" => <<"console", e.origin>> \in appended'
       /\ \A o \in exceptions :
            <<"exception", o>> \in appended' /\ status'.failure
       /\ (status'.failure /\ ~status.failure) =>
            \/ exceptions # {}
            \/ E("failure text") \in appended'
            \/ E("result.error") \in appended'
            \/ E("state not present in output") \in appended']_vars

\* A test whose evaluation logged a console error and returned a value:
\* the text is in its errors and the test has not failed.
C38_Witness ==
  /\ pc = "clear"
  /\ answer.op \in {"run", "getMetrics"}
  /\ \E o \in {"own", "earlier"} : <<"console", o>> \in appended
  /\ ~status.failure
  /\ ~status.timeout

\* The step in which an attempt of run_test ends: the next attempt is
\* issued, the loop body ends, or the exception of the attempt leaves the
\* loop.
AttemptEnds ==
  \/ runs' # runs
  \/ idx' # idx
  \/ pc' \in {"loop", "finalize", "discard"}

\* C39: an attempt of a test that is not skipped ends in the step that
\* takes the answer of Tests.clear and in no other, so Tests.clear is
\* evaluated once per attempt, after a value, a Failure, a Timeout or an
\* exception of the comparison, before the next attempt or the next test
\* starts; and when Tests.clear answers with a Failure the test is marked
\* failed: its failure flag is set, or it is counted as a failure if the
\* loop body ends in that step.
C39_ClearOncePerAttempt ==
  [][(pc \in TestAwaits /\ pc' # "exited") =>
       /\ AttemptEnds <=> (pc = "clear" /\ answer'.op = "clear")
       /\ pc' = "clear" => pc # "clear"
       /\ (pc = "clear" /\ answer'.op = "clear" /\ answer'.out = "failure") =>
            \/ (pc' \in {"run", "discard"} /\ status'.failure)
            \/ (pc' \in {"loop", "finalize"} /\ failures' = failures + 1)]_vars

\* An attempt whose image comparison threw: Tests.clear was evaluated,
\* answered with a Failure, and the exception left the loop with the test
\* marked failed.
C39_Witness ==
  /\ pc = "discard"
  /\ thrown
  /\ answer.op = "clear"
  /\ answer.out = "failure"
  /\ status.failure

\* C40: when run_tests has returned after CDP({port}) connected, the
\* client is closed, and a run that was not interrupted exits with the
\* client closed; the client is opened only by the connection and closed
\* only by the outer finally of run_tests, in one step from open to
\* closed, and is not touched again.
C40_ClosedOnceBeforeExit ==
  /\ [](pc = "exit" /\ client # "none" => client = "closed")
  /\ [][(pc # "exited" /\ pc' = "exited" /\ ~interrupted' /\ client # "none") =>
          (pc = "exit" /\ client = "closed")]_vars
  /\ [][client' # client =>
          \/ (pc = "connect" /\ client = "none" /\ client' = "open")
          \/ (pc = "close" /\ pc' = "exit" /\ client = "open"
                /\ client' = "closed")]_vars

\* A run that tested something, had no failing test, met an exception on
\* its way out and exited with 1 after the client was closed.
C40_Witness ==
  /\ pc = "exited"
  /\ ~interrupted
  /\ client = "closed"
  /\ exit_code = 1
  /\ ok0
  /\ idx >= 1
  /\ failures = 0
  /\ fatal

====
